---- MODULE Spec2Model ----
(***************************************************************************)
(* A model of cta-server: the synchronisation cycle of CTAManager.update,  *)
(* the reconciliation operations of Repository, and the statement layer of *)
(* DatabaseService over the relational schema of Repository._createSchema. *)
(***************************************************************************)
EXTENDS Integers, Sequences, FiniteSets, TLC

(***************************************************************************)
(* Values.  Integer columns hold integers, text columns hold strings.  A   *)
(* JavaScript undefined is formatted by %L as the SQL NULL.                *)
(***************************************************************************)
NULL == 0

NULLTEXT == "<null>"

Range(s) == {s[i] : i \in 1..Len(s)}

\* Array.prototype.includes
Includes(s, x) == \E i \in 1..Len(s) : s[i] = x

(***************************************************************************)
(* The schema (Repository._createSchema, and the Person table of the       *)
(* DatabaseService tests).  Every table has the primary key "id".          *)
(***************************************************************************)
EnumTables == {"ELEMENT", "RARITY", "FAMILY", "CTA_USER"}

Tables ==
    EnumTables \cup {"CARD_META", "CARD", "MINT_PASS_TYPE", "MINT_PASS",
                     "UPDATE_HISTORY", "Person"}

Columns(T) ==
    CASE T \in {"ELEMENT", "RARITY", "FAMILY"} -> {"id", "name"}
      [] T = "CTA_USER" -> {"id", "address"}
      [] T = "CARD_META" ->
            {"id", "name", "description", "image_url", "advancement",
             "card_type", "element_id", "rarity_id", "family_id"}
      [] T = "CARD" ->
            {"id", "foil", "rank", "grade", "animationLevel", "numbering",
             "power", "created_at", "updated_at", "card_meta_id", "user_id"}
      [] T = "MINT_PASS_TYPE" ->
            {"id", "pass_type", "name", "description", "image_url"}
      [] T = "MINT_PASS" ->
            {"id", "numbering", "created_at", "updated_at",
             "mint_pass_type_id", "user_id"}
      [] T = "UPDATE_HISTORY" ->
            {"id", "update_timestamp", "last_asset_timestamp", "assets_count"}
      [] T = "Person" -> {"id", "firstname", "lastname"}

\* id SERIAL PRIMARY KEY
SerialTables ==
    EnumTables \cup {"MINT_PASS_TYPE", "UPDATE_HISTORY", "Person"}

\* a schema without its UNIQUE constraints
UniqueColumnsNone(T) == {}

\* TEXT ... UNIQUE
UniqueColumns(T) ==
    CASE T \in {"ELEMENT", "RARITY", "FAMILY"} -> {"name"}
      [] T = "CTA_USER" -> {"address"}
      [] OTHER -> {}

\* columns of the model that hold strings (or sequences of strings)
TextColumns(T) ==
    CASE T \in {"ELEMENT", "RARITY", "FAMILY"} -> {"name"}
      [] T = "CTA_USER" -> {"address"}
      [] T = "CARD_META" ->
            {"name", "description", "image_url", "advancement", "card_type"}
      [] T = "CARD" -> {"grade"}
      [] T = "MINT_PASS_TYPE" ->
            {"pass_type", "name", "description", "image_url"}
      [] T = "Person" -> {"firstname", "lastname"}
      [] OTHER -> {}

\* ... NOT NULL
NotNullColumns(T) ==
    CASE T \in {"ELEMENT", "RARITY", "FAMILY"} -> {"name"}
      [] T = "CTA_USER" -> {"address"}
      [] T = "UPDATE_HISTORY" -> {"update_timestamp", "last_asset_timestamp"}
      [] OTHER -> {}

\* column INT REFERENCES table(id)
ForeignKeys(T) ==
    CASE T = "CARD_META" ->
            {<<"element_id", "ELEMENT">>, <<"rarity_id", "RARITY">>,
             <<"family_id", "FAMILY">>}
      [] T = "CARD" ->
            {<<"card_meta_id", "CARD_META">>, <<"user_id", "CTA_USER">>}
      [] T = "MINT_PASS" ->
            {<<"mint_pass_type_id", "MINT_PASS_TYPE">>,
             <<"user_id", "CTA_USER">>}
      [] OTHER -> {}

\* INT columns that the callers fill with a JavaScript string (the archetype
\* key cut out of the image file name): the literal is cast by the store.
TextLiteralColumns(T) ==
    CASE T = "CARD_META" -> {"id"}
      [] T = "CARD" -> {"card_meta_id"}
      [] OTHER -> {}

\* the cast of a quoted literal to INT; -1 stands for "invalid input syntax"
TextToInt(s) ==
    CASE s = "1" -> 1
      [] s = "2" -> 2
      [] s = "3" -> 3
      [] OTHER -> -1

NullOf(T, c) == IF c \in TextColumns(T) THEN NULLTEXT ELSE NULL

\* the store after Repository.initialize on an empty database
EmptyStore ==
    [tbl |-> [T \in Tables |-> {}], seq |-> [T \in Tables |-> 0]]

(***************************************************************************)
(* DatabaseService: the statements it formats and their effect on a store  *)
(* S = [tbl |-> rows of each table, seq |-> last value of each SERIAL].    *)
(***************************************************************************)

\* _fieldValues(fieldNames, o) for one field, as the literal the store casts
fieldValue(T, v, c) ==
    IF c \in DOMAIN v
    THEN IF c \in TextLiteralColumns(T) THEN TextToInt(v[c]) ELSE v[c]
    ELSE NullOf(T, c)

\* the row INSERT INTO T(fieldNames) VALUES (...) builds from one value
NewRow(T, fieldNames, v, nextId) ==
    [c \in Columns(T) |->
        IF Includes(fieldNames, c) THEN fieldValue(T, v, c)
        ELSE IF c = "id" /\ T \in SerialTables THEN nextId
        ELSE NullOf(T, c)]

\* NOT NULL (the primary key included) and invalid literals
RowInvalid(T, row) ==
    \/ row.id = NULL
    \/ \E c \in NotNullColumns(T) : row[c] = NullOf(T, c)
    \/ \E c \in TextLiteralColumns(T) : row[c] = -1

\* REFERENCES: a non-null foreign key names a row of the referenced table
ForeignKeyViolated(S, T, row) ==
    \E fk \in ForeignKeys(T) :
        /\ row[fk[1]] # NULL
        /\ ~ \E r \in S.tbl[fk[2]] : r.id = row[fk[1]]

\* an INSERT without ON CONFLICT DO NOTHING's arbiter
ConflictsNever(rows, T, row) == FALSE

\* the arbiter of ON CONFLICT: the primary key and the UNIQUE columns
Conflicts(rows, T, row) ==
    \E r \in rows :
        \/ r.id = row.id
        \/ \E c \in UniqueColumns(T) : r[c] = row[c]

RECURSIVE InsertFrom(_, _, _, _, _, _)
InsertFrom(S, T, fieldNames, values, i, acc) ==
    IF i > Len(values) THEN acc
    ELSE
        LET usesSeq == T \in SerialTables /\ ~ Includes(fieldNames, "id")
            row == NewRow(T, fieldNames, values[i], acc.seq + 1)
            seq2 == IF usesSeq THEN acc.seq + 1 ELSE acc.seq
        IN  IF RowInvalid(T, row)
            THEN [acc EXCEPT !.seq = seq2, !.err = TRUE]
            ELSE IF Conflicts(acc.rows, T, row)
            THEN InsertFrom(S, T, fieldNames, values, i + 1,
                            [acc EXCEPT !.seq = seq2])
            ELSE IF ForeignKeyViolated(S, T, row)
            THEN [acc EXCEPT !.seq = seq2, !.err = TRUE]
            ELSE InsertFrom(S, T, fieldNames, values, i + 1,
                            [rows |-> acc.rows \cup {row}, seq |-> seq2,
                             pks |-> Append(acc.pks, row.id), err |-> FALSE])

\* DatabaseService.insert: INSERT ... VALUES %L ON CONFLICT DO NOTHING
\* RETURNING pk, through query(), which turns a failed statement into [].
\* Result: [S |-> the store after, pks |-> the returned primary keys].
DbInsert(S, T, fieldNames, values) ==
    LET r == InsertFrom(S, T, fieldNames, values, 1,
                        [rows |-> S.tbl[T], seq |-> S.seq[T],
                         pks |-> <<>>, err |-> FALSE])
    IN  IF Len(values) = 0 THEN [S |-> S, pks |-> <<>>]
        ELSE IF r.err
        THEN [S |-> [S EXCEPT !.seq[T] = r.seq], pks |-> <<>>]
        ELSE [S |-> [tbl |-> [S.tbl EXCEPT ![T] = r.rows],
                     seq |-> [S.seq EXCEPT ![T] = r.seq]],
              pks |-> r.pks]

\* an UPDATE without its WHERE clause
UpdateOneAll(S, T, fieldNames, pkName, v) ==
    [S EXCEPT !.tbl[T] =
        {[c \in Columns(T) |->
             IF Includes(fieldNames, c) THEN fieldValue(T, v, c) ELSE r[c]] :
         r \in S.tbl[T]}]

\* one UPDATE T SET (fieldNames) = %L WHERE pk = value[pk], through query()
UpdateOne(S, T, fieldNames, pkName, v) ==
    IF pkName \notin DOMAIN v THEN S
    ELSE
        LET key == IF pkName \in TextLiteralColumns(T)
                   THEN TextToInt(v[pkName]) ELSE v[pkName]
            hit == {r \in S.tbl[T] : r[pkName] = key}
            New(r) == [c \in Columns(T) |->
                         IF Includes(fieldNames, c) THEN fieldValue(T, v, c)
                         ELSE r[c]]
            others == S.tbl[T] \ hit
            bad == \E r \in hit :
                      \/ RowInvalid(T, New(r))
                      \/ Conflicts(others, T, New(r))
                      \/ ForeignKeyViolated(S, T, New(r))
        IN  IF key = -1 \/ bad THEN S
            ELSE [S EXCEPT !.tbl[T] = others \cup {New(r) : r \in hit}]

RECURSIVE UpdateFrom(_, _, _, _, _, _)
UpdateFrom(S, T, fieldNames, pkName, values, i) ==
    IF i > Len(values) THEN S
    ELSE UpdateFrom(UpdateOne(S, T, fieldNames, pkName, values[i]),
                    T, fieldNames, pkName, values, i + 1)

\* an update that issues no statement
DbUpdateSkip(S, T, fieldNames, pkName, values) == S

\* DatabaseService.update: one UPDATE per value, in order
DbUpdate(S, T, fieldNames, pkName, values) ==
    UpdateFrom(S, T, fieldNames, pkName, values, 1)

\* pkValues.includes(v[pkName]): strict equality, so a string key never
\* equals the number the store returns
PkIncluded(T, pkValues, v, pkName) ==
    IF pkName \in TextLiteralColumns(T) THEN FALSE
    ELSE Includes(pkValues, v[pkName])

\* const { [pkName]: unused, ...rest } = v
WithoutProp(v, p) == [f \in DOMAIN v \ {p} |-> v[f]]

\* an upsert that only inserts
UpdatedRowsNone(T, pkName, values, pkValues) == <<>>

\* the rows upsert hands to update after its insert returned pkValues
UpdatedRows(T, pkName, values, pkValues) ==
    LET Old(v) == pkName \in DOMAIN v /\ ~ PkIncluded(T, pkValues, v, pkName)
    IN  IF Len(pkValues) > 0 THEN SelectSeq(values, Old) ELSE values

\* DatabaseService.upsert
DbUpsert(S, T, fieldNames, pkName, values, insertPk) ==
    LET NotPk(f) == f # pkName
        ins == DbInsert(S, T,
                        IF insertPk THEN fieldNames
                        ELSE SelectSeq(fieldNames, NotPk),
                        IF insertPk THEN values
                        ELSE [i \in 1..Len(values) |->
                                WithoutProp(values[i], pkName)])
        updatedRows == UpdatedRows(T, pkName, values, ins.pks)
    IN  IF Len(updatedRows) > 0
        THEN DbUpdate(ins.S, T, fieldNames, pkName, updatedRows)
        ELSE ins.S

\* a delete without its WHERE clause
DbDeleteAll(S, T, ids) == [S |-> [S EXCEPT !.tbl[T] = {}], threw |-> FALSE]

\* DatabaseService.delete: DELETE FROM T WHERE id IN (%L), on the pool
\* directly: a failed statement (an empty list gives "IN ()") rejects.
\* Result: [S |-> the store after, threw |-> whether the call rejected].
DbDelete(S, T, ids) ==
    LET gone == {r \in S.tbl[T] : Includes(ids, r.id)}
        referenced ==
            \E R \in Tables : \E fk \in ForeignKeys(R) :
                /\ fk[2] = T
                /\ \E r \in S.tbl[R] : \E g \in gone : r[fk[1]] = g.id
    IN  IF Len(ids) = 0 \/ referenced THEN [S |-> S, threw |-> TRUE]
        ELSE [S |-> [S EXCEPT !.tbl[T] = S.tbl[T] \ gone], threw |-> FALSE]

(***************************************************************************)
(* Assets of the upstream feed.  An image reference is a sequence of       *)
(* tokens: the separators "/", "-" and ".png", and the text between them.  *)
(***************************************************************************)
ImageOf(dir, key, rest) ==
    <<"https:", "/", dir, "/", key>> \o rest

\* a CARD asset: token, owner, status, archetype key, variant of the mutable
\* content, upstream timestamp
CardAsset(tok, owner, status, key, v, ts) ==
    [token_id |-> tok, user |-> owner, status |-> status,
     created_at |-> 1, updated_at |-> ts,
     metadata |->
        [tokenType |-> "CARD",
         name |-> IF v = 1 THEN "Gaia" ELSE "Gaia reborn",
         description |-> IF v = 1 THEN "first print" ELSE "second print",
         rarity |-> IF v = 1 THEN "RARE" ELSE "COMMON",
         set |-> "ARKHANTE",
         element |-> IF key = "1" THEN "NATURE" ELSE "FIRE",
         power |-> 10 * v, foil |-> (v = 2), rank |-> v,
         grade |-> IF v = 1 THEN "C" ELSE "S",
         potential |-> v, numbering |-> tok,
         image |-> ImageOf("cards", key, <<"-", "0001", ".png">>),
         advancement |-> IF v = 1 THEN "STANDARD" ELSE "ALTERNATIVE",
         cardType |-> "EXCLUSIVE", animationLevel |-> v]]

\* a MINT_PASS asset (the card-only metadata is absent upstream; the model
\* keeps the record shape and leaves those fields blank)
PassAsset(tok, owner, status, type, v, ts) ==
    [token_id |-> tok, user |-> owner, status |-> status,
     created_at |-> 1, updated_at |-> ts,
     metadata |->
        [tokenType |-> "MINT_PASS",
         name |-> IF v = 1 THEN "Pass" ELSE "Pass (renamed)",
         description |-> "mint pass",
         rarity |-> "", set |-> "", element |-> "",
         power |-> 0, foil |-> FALSE, rank |-> 0, grade |-> "",
         potential |-> 0, numbering |-> tok,
         image |-> ImageOf("passes", type, <<".png">>),
         advancement |-> "", cardType |-> "", animationLevel |-> 0]]

\* an asset of a kind the manager does not know
OtherAsset(tok, owner, status, ts) ==
    [PassAsset(tok, owner, status, "x", 1, ts)
        EXCEPT !.metadata.tokenType = "LAND"]

(***************************************************************************)
(* CTAManager: the keys cut out of the image file name.                    *)
(***************************************************************************)
\* String.prototype.lastIndexOf as a position in the token sequence (0: none)
LastIndexOf(url, sep) ==
    LET hits == {i \in 1..Len(url) : url[i] = sep}
    IN  IF hits = {} THEN 0 ELSE CHOOSE i \in hits : \A j \in hits : j <= i

\* url.substring(url.lastIndexOf("/") + 1)
Filename(url) == SubSeq(url, LastIndexOf(url, "/") + 1, Len(url))

\* the text of a run of tokens (the model's runs hold at most one text token)
TextOf(run) == IF Len(run) = 0 THEN "" ELSE run[1]

\* getMetaCardId: filename.split("-")[0]
getMetaCardId(asset) ==
    LET filename == Filename(asset.metadata.image)
        dashes == {i \in 1..Len(filename) : filename[i] = "-"}
        first == IF dashes = {} THEN Len(filename) + 1
                 ELSE CHOOSE i \in dashes : \A j \in dashes : i <= j
    IN  TextOf(SubSeq(filename, 1, first - 1))

\* getMintPassType: filename.replace(".png", "")
getMintPassType(asset) ==
    LET filename == Filename(asset.metadata.image)
        NotPng(t) == t # ".png"
    IN  TextOf(SelectSeq(filename, NotPng))

(***************************************************************************)
(* CTAManager.update: the classification of one page.                      *)
(***************************************************************************)
\* a filter that lets every asset through
ActiveAlways(a) == TRUE

\* the filter of the assets that are not burned
Active(a) == a.status # "burned"

\* a test that takes every asset that is not a pass for a card
IsCardUnlessPass(a) == a.metadata.tokenType # "MINT_PASS"

IsCard(a) == a.metadata.tokenType = "CARD"

IsPass(a) == a.metadata.tokenType = "MINT_PASS"

\* the distinct values of F over a sequence, in order of first appearance
\* (the insertion order of a Set)
RECURSIVE Distinct(_, _, _, _)
Distinct(s, F(_), i, acc) ==
    IF i > Len(s) THEN acc
    ELSE Distinct(s, F, i + 1,
                  IF Includes(acc, F(s[i])) THEN acc ELSE Append(acc, F(s[i])))

\* the elements of s whose key K is the first of its kind (Map.has / Map.set)
FirstByKey(s, K(_)) ==
    LET First(i) == \A j \in 1..(i - 1) : K(s[j]) # K(s[i])
        idx == {i \in 1..Len(s) : First(i)}
        RECURSIVE Pick(_, _)
        Pick(i, acc) ==
            IF i > Len(s) THEN acc
            ELSE Pick(i + 1, IF i \in idx THEN Append(acc, s[i]) ELSE acc)
    IN  Pick(1, <<>>)

MetaCardOf(a) ==
    [id |-> getMetaCardId(a), name |-> a.metadata.name,
     description |-> a.metadata.description, imageUrl |-> a.metadata.image,
     element |-> a.metadata.element, rarity |-> a.metadata.rarity,
     family |-> a.metadata.set, advancement |-> a.metadata.advancement,
     cardType |-> a.metadata.cardType]

CardOf(a) ==
    [id |-> a.token_id, card_meta_id |-> getMetaCardId(a), user |-> a.user,
     status |-> a.status, foil |-> a.metadata.foil, rank |-> a.metadata.rank,
     grade |-> a.metadata.grade, power |-> a.metadata.power,
     potential |-> a.metadata.potential, numbering |-> a.metadata.numbering,
     animationLevel |-> a.metadata.animationLevel,
     created_at |-> a.created_at, updated_at |-> a.updated_at]

MintPassTypeOf(a) ==
    [passType |-> getMintPassType(a), name |-> a.metadata.name,
     description |-> a.metadata.description, imageUrl |-> a.metadata.image]

MintPassOf(a) ==
    [id |-> a.token_id, passType |-> getMintPassType(a), user |-> a.user,
     numbering |-> a.metadata.numbering,
     created_at |-> a.created_at, updated_at |-> a.updated_at]

\* a classification in which the last record of a key wins
ClassifyLastWins(assets) ==
    LET n == Len(assets)
        reversed == [i \in 1..n |-> assets[n + 1 - i]]
        activeCards == SelectSeq(reversed, LAMBDA a : Active(a) /\ IsCard(a))
        activePasses == SelectSeq(reversed, LAMBDA a : Active(a) /\ IsPass(a))
        Tok(a) == a.token_id
        cardsLast == FirstByKey(activeCards, Tok)
        metaLast == FirstByKey(activeCards, getMetaCardId)
        passesLast == FirstByKey(activePasses, Tok)
        typesLast == FirstByKey(activePasses, getMintPassType)
        El(a) == a.metadata.element
        Ra(a) == a.metadata.rarity
        Fa(a) == a.metadata.set
        Us(a) == a.user
    IN  [arkomes |-> Distinct(activeCards, El, 1, <<>>),
         rarities |-> Distinct(activeCards, Ra, 1, <<>>),
         families |-> Distinct(activeCards, Fa, 1, <<>>),
         users |-> Distinct(activeCards, Us, 1, <<>>),
         metaCards |-> [i \in 1..Len(metaLast) |-> MetaCardOf(metaLast[i])],
         cards |-> [i \in 1..Len(cardsLast) |-> CardOf(cardsLast[i])],
         mintPassTypes |->
            [i \in 1..Len(typesLast) |-> MintPassTypeOf(typesLast[i])],
         mintPasses |->
            [i \in 1..Len(passesLast) |-> MintPassOf(passesLast[i])]]

\* the argument of repository.update built from a page
Classify(assets) ==
    LET activeCards == SelectSeq(assets, LAMBDA a : Active(a) /\ IsCard(a))
        activePasses == SelectSeq(assets, LAMBDA a : Active(a) /\ IsPass(a))
        El(a) == a.metadata.element
        Ra(a) == a.metadata.rarity
        Fa(a) == a.metadata.set
        Us(a) == a.user
        Tok(a) == a.token_id
        cardsFirst == FirstByKey(activeCards, Tok)
        metaFirst == FirstByKey(activeCards, getMetaCardId)
        passesFirst == FirstByKey(activePasses, Tok)
        typesFirst == FirstByKey(activePasses, getMintPassType)
    IN  [arkomes |-> Distinct(activeCards, El, 1, <<>>),
         rarities |-> Distinct(activeCards, Ra, 1, <<>>),
         families |-> Distinct(activeCards, Fa, 1, <<>>),
         users |-> Distinct(activeCards, Us, 1, <<>>),
         metaCards |-> [i \in 1..Len(metaFirst) |-> MetaCardOf(metaFirst[i])],
         cards |-> [i \in 1..Len(cardsFirst) |-> CardOf(cardsFirst[i])],
         mintPassTypes |->
            [i \in 1..Len(typesFirst) |-> MintPassTypeOf(typesFirst[i])],
         mintPasses |->
            [i \in 1..Len(passesFirst) |-> MintPassOf(passesFirst[i])]]

\* the argument of repository.burn built from a page
Burned(assets) ==
    LET burnedCards == SelectSeq(assets, LAMBDA a : ~ Active(a) /\ IsCard(a))
        burnedPasses == SelectSeq(assets, LAMBDA a : ~ Active(a) /\ IsPass(a))
    IN  [passIds |-> [i \in 1..Len(burnedPasses) |-> burnedPasses[i].token_id],
         cardIds |-> [i \in 1..Len(burnedCards) |-> burnedCards[i].token_id]]

(***************************************************************************)
(* Repository: the reads, and the reconciliation operations as functions   *)
(* from a store to the store after the call.  Each operation that reads    *)
(* before it writes is split at that await: the rows it computes from the  *)
(* read, then the write of those rows.                                     *)
(***************************************************************************)

\* _get_enum_table / _read_mint_pass_types: new Map(rows.map(...)), a later
\* row of the same name replacing an earlier one (rows come in id order)
get_enum_table(S, T, fieldName) ==
    LET rows == S.tbl[T]
        names == {r[fieldName] : r \in rows}
        Last(n) == CHOOSE r \in rows :
                      /\ r[fieldName] = n
                      /\ \A q \in rows : q[fieldName] = n => q.id <= r.id
    IN  [n \in names |-> Last(n).id]

\* a lookup that finds nothing
MapGetNone(map, k) == NULL

\* Map.prototype.get: undefined for an unknown key
MapGet(map, k) == IF k \in DOMAIN map THEN map[k] ELSE NULL

\* { ...r, extra }
Spread(r, extra) ==
    [f \in DOMAIN r \cup DOMAIN extra |->
        IF f \in DOMAIN extra THEN extra[f] ELSE r[f]]

\* _insertNewValuesInEnumTable after its read returned existingValues
insertNewValues(S, T, fieldName, items, existingValues) ==
    LET New(v) == v \notin DOMAIN existingValues
        newValues == SelectSeq(items, New)
    IN  IF Len(newValues) > 0
        THEN DbInsert(S, T, <<fieldName>>,
                      [i \in 1..Len(newValues) |->
                          [f \in {fieldName} |-> newValues[i]]]).S
        ELSE S

EnumField(T) == IF T = "CTA_USER" THEN "address" ELSE "name"

\* updateElements, updateRarities, updateFamilies, updateUsers
insertNewValuesInEnumTable(S, T, items) ==
    insertNewValues(S, T, EnumField(T), items,
                    get_enum_table(S, T, EnumField(T)))

MetaCardFields ==
    <<"id", "name", "description", "image_url", "advancement", "card_type",
      "element_id", "rarity_id", "family_id">>

\* updateMetaCards: the rows built from the three dimension maps
MetaCardRows(S, metaCards) ==
    LET elements == get_enum_table(S, "ELEMENT", "name")
        rarities == get_enum_table(S, "RARITY", "name")
        families == get_enum_table(S, "FAMILY", "name")
    IN  [i \in 1..Len(metaCards) |->
            Spread(metaCards[i],
                   [image_url |-> metaCards[i].imageUrl,
                    card_type |-> metaCards[i].cardType,
                    element_id |-> MapGet(elements, metaCards[i].element),
                    rarity_id |-> MapGet(rarities, metaCards[i].rarity),
                    family_id |-> MapGet(families, metaCards[i].family)])]

writeMetaCards(S, rows) ==
    DbUpsert(S, "CARD_META", MetaCardFields, "id", rows, TRUE)

updateMetaCards(S, metaCards) ==
    IF Len(metaCards) <= 0 THEN S
    ELSE writeMetaCards(S, MetaCardRows(S, metaCards))

CardFields ==
    <<"id", "foil", "rank", "grade", "animationLevel", "numbering", "power",
      "created_at", "updated_at", "card_meta_id", "user_id">>

\* updateCards: the rows built from the users map
CardRows(S, cards) ==
    LET users == get_enum_table(S, "CTA_USER", "address")
    IN  [i \in 1..Len(cards) |->
            Spread(cards[i],
                   [foil |-> IF cards[i].foil THEN 1 ELSE 0,
                    power |-> cards[i].power,
                    card_meta_id |-> cards[i].card_meta_id,
                    user_id |-> MapGet(users, cards[i].user)])]

writeCards(S, rows) == DbUpsert(S, "CARD", CardFields, "id", rows, TRUE)

updateCards(S, cards) ==
    IF Len(cards) <= 0 THEN S ELSE writeCards(S, CardRows(S, cards))

MintPassTypeFields == <<"pass_type", "name", "description", "image_url">>

\* updateMintPassTypes inserting every candidate, whether its pass type has
\* a row or not
MintPassTypeRowsAll(S, mintPassTypes) ==
    [i \in 1..Len(mintPassTypes) |->
        Spread(mintPassTypes[i],
               [pass_type |-> mintPassTypes[i].passType,
                image_url |-> mintPassTypes[i].imageUrl])]

\* updateMintPassTypes: the candidates whose pass type has no row yet
MintPassTypeRows(S, mintPassTypes) ==
    LET existingPassTypes == get_enum_table(S, "MINT_PASS_TYPE", "pass_type")
        New(p) == p.passType \notin DOMAIN existingPassTypes
        new == SelectSeq(mintPassTypes, New)
    IN  [i \in 1..Len(new) |->
            Spread(new[i], [pass_type |-> new[i].passType,
                            image_url |-> new[i].imageUrl])]

writeMintPassTypes(S, rows) ==
    IF Len(rows) > 0
    THEN DbInsert(S, "MINT_PASS_TYPE", MintPassTypeFields, rows).S
    ELSE S

updateMintPassTypes(S, mintPassTypes) ==
    IF Len(mintPassTypes) <= 0 THEN S
    ELSE writeMintPassTypes(S, MintPassTypeRows(S, mintPassTypes))

MintPassFields ==
    <<"id", "numbering", "created_at", "updated_at", "mint_pass_type_id",
      "user_id">>

\* updateMintPasses: the rows built from the users and pass-type maps
MintPassRows(S, mintPasses) ==
    LET users == get_enum_table(S, "CTA_USER", "address")
        existingPassTypes == get_enum_table(S, "MINT_PASS_TYPE", "pass_type")
    IN  [i \in 1..Len(mintPasses) |->
            Spread(mintPasses[i],
                   [mint_pass_type_id |->
                        MapGet(existingPassTypes, mintPasses[i].passType),
                    user_id |-> MapGet(users, mintPasses[i].user)])]

writeMintPasses(S, rows) ==
    DbUpsert(S, "MINT_PASS", MintPassFields, "id", rows, TRUE)

updateMintPasses(S, mintPasses) ==
    IF Len(mintPasses) <= 0 THEN S
    ELSE writeMintPasses(S, MintPassRows(S, mintPasses))

\* burnPasses / burnCards: [S |-> store after, threw |-> the call rejected]
burnIds(S, T, ids) ==
    IF Len(ids) > 0 THEN DbDelete(S, T, ids) ELSE [S |-> S, threw |-> FALSE]

\* Repository.burn: burnPasses, then (unless it rejected) burnCards
RepositoryBurn(S, b) ==
    LET p == burnIds(S, "MINT_PASS", b.passIds)
    IN  IF p.threw THEN p ELSE burnIds(p.S, "CARD", b.cardIds)

\* a checkpoint that is not written
recordUpdateNone(S, updateTimestamp, lastAssetTimestamp, assetsCount) == S

\* Repository.recordUpdate
recordUpdate(S, updateTimestamp, lastAssetTimestamp, assetsCount) ==
    DbInsert(S, "UPDATE_HISTORY",
             <<"update_timestamp", "last_asset_timestamp", "assets_count">>,
             <<[update_timestamp |-> updateTimestamp,
                last_asset_timestamp |-> lastAssetTimestamp,
                assets_count |-> assetsCount]>>).S

\* Repository.update
RepositoryUpdate(S, c) ==
    LET s1 == insertNewValuesInEnumTable(S, "ELEMENT", c.arkomes)
        s2 == insertNewValuesInEnumTable(s1, "RARITY", c.rarities)
        s3 == insertNewValuesInEnumTable(s2, "FAMILY", c.families)
        s4 == insertNewValuesInEnumTable(s3, "CTA_USER", c.users)
        s5 == updateMetaCards(s4, c.metaCards)
        s6 == updateCards(s5, c.cards)
        s7 == updateMintPassTypes(s6, c.mintPassTypes)
    IN  updateMintPasses(s7, c.mintPasses)

(***************************************************************************)
(* State.                                                                  *)
(***************************************************************************)
VARIABLES
    db,          \* the relational store: [tbl, seq]
    lastCursor,  \* CTAManager.lastCursor (0: undefined, the feed's start)
    cycle,       \* the calls of CTAManager.update: slot -> its locals
    clock,       \* the wall clock read by new Date()
    started,     \* how many calls of CTAManager.update were made
    failures,    \* how many upstream fetches have thrown
    call,        \* the operation last applied to the store, with its input
    before       \* the store before that operation

vars == <<db, lastCursor, cycle, clock, started, failures, call, before>>

(***************************************************************************)
(* One iteration of the loop of CTAManager.update on a page, without its   *)
(* awaits: repository.update, then repository.burn.                        *)
(***************************************************************************)
\* the pages of at most two assets the reconciliation is applied to
AssetPool ==
    {CardAsset(1, "0xA", "active", "1", 1, 1),
     CardAsset(1, "0xB", "active", "1", 2, 2),
     CardAsset(2, "0xB", "active", "2", 1, 1),
     CardAsset(1, "0xB", "burned", "1", 2, 3),
     PassAsset(3, "0xA", "active", "gold", 1, 1),
     PassAsset(3, "0xA", "burned", "gold", 1, 2),
     OtherAsset(4, "0xA", "active", 1)}

Pages == {<<a>> : a \in AssetPool} \cup {<<a, b>> : a, b \in AssetPool}

NoCall == [op |-> "none", assets |-> <<>>]

\* repository.update(...) of CTAManager.update on a page
PageUpdate(assets) ==
    /\ call.op \in {"none", "burn"}
    /\ db' = RepositoryUpdate(db, Classify(assets))
    /\ call' = [op |-> "update", assets |-> assets]
    /\ before' = db
    /\ UNCHANGED <<lastCursor, cycle, clock, started, failures>>

\* repository.burn(...) of CTAManager.update on the same page
PageBurn ==
    /\ call.op = "update"
    /\ LET b == RepositoryBurn(db, Burned(call.assets))
       IN  /\ db' = b.S
           /\ call' = [op |-> "burn", assets |-> call.assets,
                       threw |-> b.threw]
    /\ before' = db
    /\ UNCHANGED <<lastCursor, cycle, clock, started, failures>>

NoCycles == [c \in {} |-> 0]

InitPage ==
    /\ db = EmptyStore
    /\ lastCursor = 0
    /\ cycle = NoCycles
    /\ clock = 0
    /\ started = 0
    /\ failures = 0
    /\ call = NoCall
    /\ before = EmptyStore

NextPage == (\E assets \in Pages : PageUpdate(assets)) \/ PageBurn

SpecPage == InitPage /\ [][NextPage]_vars

(***************************************************************************)
(* DatabaseService on the Person table of its tests.                       *)
(***************************************************************************)
MaxPersons == 6

PersonFields == <<"firstname", "lastname">>

\* fillTables: the two persons every test starts from
PersonFixture ==
    DbInsert(EmptyStore, "Person", PersonFields,
             <<[firstname |-> "john", lastname |-> "doe"],
               [firstname |-> "mike", lastname |-> "horn"]>>).S

\* candidates: rows 1 and 2 with new names, a new person with an id no row
\* has, a new person without id
PersonCandidates ==
    {[id |-> 1, firstname |-> "marilyn", lastname |-> "monroe"],
     [id |-> 2, firstname |-> "john", lastname |-> "wayne"],
     [id |-> 9, firstname |-> "bob", lastname |-> "marley"],
     [firstname |-> "eric", lastname |-> "clapton"]}

PersonBatches ==
    {<<a>> : a \in PersonCandidates}
        \cup {<<a, b>> : a, b \in PersonCandidates}
        \cup {<<a, b, c>> : a, b, c \in PersonCandidates}

AllDistinct(s) == \A i, j \in 1..Len(s) : i # j => s[i] # s[j]

\* dbService.upsert("Person", ["firstname", "lastname"], "id", values)
PersonUpsert(values) ==
    /\ AllDistinct(values)
    /\ Cardinality(db.tbl["Person"]) + Len(values) <= MaxPersons
    /\ db' = DbUpsert(db, "Person", PersonFields, "id", values, FALSE)
    /\ call' = [op |-> "upsert", values |-> values]
    /\ before' = db
    /\ UNCHANGED <<lastCursor, cycle, clock, started, failures>>

InitDb ==
    /\ db = PersonFixture
    /\ lastCursor = 0
    /\ cycle = NoCycles
    /\ clock = 0
    /\ started = 0
    /\ failures = 0
    /\ call = NoCall
    /\ before = PersonFixture

NextDb == \E values \in PersonBatches : PersonUpsert(values)

SpecDb == InitDb /\ [][NextDb]_vars

(***************************************************************************)
(* DatabaseService as its callers may use it: query, insert (with and      *)
(* without the primary key among the fields), update, upsert and delete on *)
(* the Person table.  The keys of a value are the field names, as the      *)
(* documentation of insert and update asks.                                *)
(***************************************************************************)
MaxSeq == 4

\* candidates with their primary key: two for row 1, one for a key no row
\* of the fixture has
StoreCandidates ==
    {[id |-> 1, firstname |-> "marilyn", lastname |-> "monroe"],
     [id |-> 1, firstname |-> "john", lastname |-> "wayne"],
     [id |-> 9, firstname |-> "bob", lastname |-> "marley"]}

StoreBatches ==
    {<<a>> : a \in StoreCandidates}
        \cup {<<a, b>> : a, b \in StoreCandidates}

StoreFieldLists ==
    {<<"firstname", "lastname">>, <<"id", "firstname", "lastname">>}

StoreIdLists == {<<>>, <<1>>, <<3>>, <<9>>, <<9, 1>>}

\* dbService.query(statement): the rows, or [] when the statement fails
PersonQuery(valid) ==
    /\ call' = [op |-> "query", threw |-> FALSE,
                rows |-> IF valid THEN db.tbl["Person"] ELSE {}]
    /\ before' = db
    /\ UNCHANGED <<db, lastCursor, cycle, clock, started, failures>>

\* dbService.insert("Person", fieldNames, "id", values)
PersonInsert(fieldNames, values) ==
    /\ AllDistinct(values)
    /\ db.seq["Person"] + Len(values) <= MaxSeq
    /\ LET r == DbInsert(db, "Person", fieldNames, values)
       IN  /\ db' = r.S
           /\ call' = [op |-> "insert", threw |-> FALSE,
                       fieldNames |-> fieldNames, values |-> values,
                       pks |-> r.pks]
    /\ before' = db
    /\ UNCHANGED <<lastCursor, cycle, clock, started, failures>>

\* dbService.update("Person", fieldNames, "id", values)
PersonUpdate(fieldNames, values) ==
    /\ AllDistinct(values)
    /\ db' = DbUpdate(db, "Person", fieldNames, "id", values)
    /\ call' = [op |-> "update", threw |-> FALSE,
                fieldNames |-> fieldNames, values |-> values]
    /\ before' = db
    /\ UNCHANGED <<lastCursor, cycle, clock, started, failures>>

\* dbService.upsert("Person", ["firstname", "lastname"], "id", values)
PersonUpsertBatch(values) ==
    /\ AllDistinct(values)
    /\ db.seq["Person"] + Len(values) <= MaxSeq
    /\ db' = DbUpsert(db, "Person", PersonFields, "id", values, FALSE)
    /\ call' = [op |-> "upsert", threw |-> FALSE, values |-> values]
    /\ before' = db
    /\ UNCHANGED <<lastCursor, cycle, clock, started, failures>>

\* dbService.delete("Person", ids)
PersonDelete(ids) ==
    /\ LET d == DbDelete(db, "Person", ids)
       IN  /\ db' = d.S
           /\ call' = [op |-> "delete", threw |-> d.threw, ids |-> ids]
    /\ before' = db
    /\ UNCHANGED <<lastCursor, cycle, clock, started, failures>>

NextStore ==
    \/ \E valid \in BOOLEAN : PersonQuery(valid)
    \/ \E f \in StoreFieldLists, values \in StoreBatches :
          PersonInsert(f, values)
    \/ \E f \in {PersonFields, <<"firstname">>}, values \in StoreBatches :
          PersonUpdate(f, values)
    \/ \E values \in StoreBatches : PersonUpsertBatch(values)
    \/ \E ids \in StoreIdLists : PersonDelete(ids)

SpecStore == InitDb /\ [][NextStore]_vars

(***************************************************************************)
(* The upstream feed: the records in ascending updated_at, served in pages *)
(* of CTA_PAGE_SIZE from the position a cursor names.  The configuration   *)
(* values are scaled down (the code takes them from the environment).      *)
(***************************************************************************)
CTA_PAGE_SIZE == 2

MAX_ASSETS_PER_UPDATE == 4

MaxRecords == 5

MaxCycles == 2

MaxFailures == 1

\* the i-th record of the feed; its updated_at is i
Ledger(i) ==
    CASE i = 1 -> CardAsset(1, "0xA", "active", "1", 1, i)
      [] i = 2 -> PassAsset(2, "0xA", "active", "gold", 1, i)
      [] i = 3 -> CardAsset(1, "0xB", "active", "1", 2, i)
      [] i = 4 -> PassAsset(2, "0xA", "burned", "gold", 1, i)
      [] i = 5 -> CardAsset(1, "0xB", "burned", "1", 2, i)
      [] i = 6 -> CardAsset(3, "0xA", "active", "2", 1, i)
      [] OTHER -> OtherAsset(i, "0xA", "active", i)

Feed == [i \in 1..MaxRecords |-> Ledger(i)]

\* client.listAssets({..., cursor}): the page after the cursor and the
\* continuation token to resume after it
listAssets(cursor) ==
    LET last == IF cursor + CTA_PAGE_SIZE < Len(Feed)
                THEN cursor + CTA_PAGE_SIZE ELSE Len(Feed)
    IN  [result |-> SubSeq(Feed, cursor + 1, last),
         cursor |-> IF last > cursor THEN last ELSE cursor]

(***************************************************************************)
(* CTAManager.update as the timer of cta-server.js runs it: a call is a    *)
(* sequence of steps, one per awaited upstream call or store operation,    *)
(* and a new call may start whenever the running ones are suspended.       *)
(***************************************************************************)
\* at most two calls are in progress at a time
Slots == {"a", "b"}

IdleCycle ==
    [pc |-> "idle", tab |-> "", reqCursor |-> 0, assets |-> <<>>,
     assetsCount |-> 0, updateTs |-> 0, tmp |-> <<>>,
     pages |-> 0, writes |-> 0, cursor0 |-> 0, db0 |-> EmptyStore,
     token |-> 0]

Running(c) == cycle[c].pc # "idle"

\* an order in which the instances precede what they refer to
UpdateOrderInstancesFirst ==
    <<"CARD", "MINT_PASS", "CARD_META", "MINT_PASS_TYPE", "ELEMENT",
      "RARITY", "FAMILY", "CTA_USER">>

\* the order of Repository.update
UpdateOrder ==
    <<"ELEMENT", "RARITY", "FAMILY", "CTA_USER", "CARD_META", "CARD",
      "MINT_PASS_TYPE", "MINT_PASS">>

\* the candidates Repository.update hands to the operation on table T
CandidatesFor(assets, T) ==
    LET c == Classify(assets)
    IN  CASE T = "ELEMENT" -> c.arkomes
          [] T = "RARITY" -> c.rarities
          [] T = "FAMILY" -> c.families
          [] T = "CTA_USER" -> c.users
          [] T = "CARD_META" -> c.metaCards
          [] T = "CARD" -> c.cards
          [] T = "MINT_PASS_TYPE" -> c.mintPassTypes
          [] T = "MINT_PASS" -> c.mintPasses

\* the locals after recordUpdate: the next page is requested with the
\* cursor retained at that moment
RequestNext(l) ==
    [l EXCEPT !.pc = "fetch", !.tab = "", !.tmp = <<>>,
              !.reqCursor = lastCursor]

\* the locals after repository.burn: recordUpdate (a page in the loop is
\* never empty)
AfterBurn(l) == [l EXCEPT !.pc = "record", !.tab = "", !.tmp = <<>>]

\* the locals after burnPasses: burnCards awaits the store only for a
\* non-empty list
AfterBurnPasses(l) ==
    IF Len(Burned(l.assets).cardIds) > 0
    THEN [l EXCEPT !.pc = "burn", !.tab = "CARD", !.tmp = <<>>]
    ELSE AfterBurn(l)

\* the locals after repository.update
AfterUpdate(l) ==
    IF Len(Burned(l.assets).passIds) > 0
    THEN [l EXCEPT !.pc = "burn", !.tab = "MINT_PASS", !.tmp = <<>>]
    ELSE AfterBurnPasses(l)

\* the locals when Repository.update reaches its k-th operation: an enum
\* table is always read, the other operations return at once on an empty
\* list of candidates
RECURSIVE Goto(_, _)
Goto(l, k) ==
    IF k > Len(UpdateOrder) THEN AfterUpdate(l)
    ELSE IF \/ UpdateOrder[k] \in EnumTables
            \/ Len(CandidatesFor(l.assets, UpdateOrder[k])) > 0
    THEN [l EXCEPT !.pc = "read", !.tab = UpdateOrder[k], !.tmp = <<>>]
    ELSE Goto(l, k + 1)

IndexOf(T) == CHOOSE k \in 1..Len(UpdateOrder) : UpdateOrder[k] = T

\* the locals after the operation on table l.tab
Advance(l) == Goto(l, IndexOf(l.tab) + 1)

\* while (assets.length > 0 && assetsCount < MAX_ASSETS_PER_UPDATE)
LoopContinues(l) ==
    Len(l.assets) > 0 /\ l.assetsCount < MAX_ASSETS_PER_UPDATE

\* setImmediate / setInterval: ctaManager.update() is called; it runs up to
\* its first await, the request of a page with the retained cursor.  The
\* call takes the first free slot (slots only name the calls in progress),
\* and the clock advances with the timer.
Start(c) ==
    /\ ~ Running(c)
    /\ (c = "b" => Running("a"))
    /\ started < MaxCycles
    /\ started' = started + 1
    /\ clock' = clock + 1
    /\ cycle' = [cycle EXCEPT ![c] =
                    [IdleCycle EXCEPT !.pc = "fetch",
                                      !.reqCursor = lastCursor,
                                      !.cursor0 = lastCursor,
                                      !.db0 = db]]
    /\ UNCHANGED <<db, lastCursor, failures, call, before>>

\* _getNewAssetsPage resumes with a page: the cursor is retained, and the
\* loop is entered (up to the first read of Repository.update) or left
FetchOk(c) ==
    /\ cycle[c].pc = "fetch"
    /\ LET r == listAssets(cycle[c].reqCursor)
           l == [cycle[c] EXCEPT !.assets = r.result,
                                 !.assetsCount = Len(r.result),
                                 !.token = r.cursor]
       IN  /\ lastCursor' = r.cursor
           /\ cycle' = [cycle EXCEPT ![c] =
                           IF LoopContinues(l)
                           THEN Goto([l EXCEPT !.updateTs = clock], 1)
                           ELSE IdleCycle]
    /\ UNCHANGED <<db, clock, started, failures, call, before>>

\* client.listAssets throws: update() logs and returns
FetchFail(c) ==
    /\ cycle[c].pc = "fetch"
    /\ failures < MaxFailures
    /\ failures' = failures + 1
    /\ cycle' = [cycle EXCEPT ![c] = IdleCycle]
    /\ UNCHANGED <<db, lastCursor, clock, started, call, before>>

\* the read of an operation of Repository.update on table T completes
ReadStep(c, T, result, hasWrite) ==
    /\ cycle[c].pc = "read"
    /\ cycle[c].tab = T
    /\ cycle' = [cycle EXCEPT ![c] =
                    IF hasWrite
                    THEN [cycle[c] EXCEPT !.pc = "write", !.tmp = result]
                    ELSE Advance(cycle[c])]
    /\ UNCHANGED <<db, lastCursor, clock, started, failures, call, before>>

\* the write of an operation of Repository.update on table T completes
\* (the insert of an upsert and the updates that follow it are one step)
WriteStep(c, T, S) ==
    /\ cycle[c].pc = "write"
    /\ cycle[c].tab = T
    /\ db' = S
    /\ cycle' = [cycle EXCEPT ![c] =
                    Advance([cycle[c] EXCEPT !.writes = @ + 1])]
    /\ UNCHANGED <<lastCursor, clock, started, failures, call, before>>

\* _insertNewValuesInEnumTable: await readExistingValues()
EnumRead(c) ==
    \E T \in EnumTables :
        LET existingValues == get_enum_table(db, T, EnumField(T))
            items == CandidatesFor(cycle[c].assets, T)
        IN  ReadStep(c, T, existingValues,
                     \E i \in 1..Len(items) :
                        items[i] \notin DOMAIN existingValues)

\* _insertNewValuesInEnumTable: await this.dbService.insert(...)
EnumInsert(c) ==
    \E T \in EnumTables :
        WriteStep(c, T,
                  insertNewValues(db, T, EnumField(T),
                                  CandidatesFor(cycle[c].assets, T),
                                  cycle[c].tmp))

\* updateMetaCards: the three reads
MetaCardsRead(c) ==
    ReadStep(c, "CARD_META",
             MetaCardRows(db, CandidatesFor(cycle[c].assets, "CARD_META")),
             TRUE)

\* updateMetaCards: the upsert
MetaCardsWrite(c) ==
    WriteStep(c, "CARD_META", writeMetaCards(db, cycle[c].tmp))

\* updateCards: the read of the users
CardsRead(c) ==
    ReadStep(c, "CARD", CardRows(db, CandidatesFor(cycle[c].assets, "CARD")),
             TRUE)

\* updateCards: the upsert
CardsWrite(c) == WriteStep(c, "CARD", writeCards(db, cycle[c].tmp))

\* updateMintPassTypes: the read of the existing pass types
MintPassTypesRead(c) ==
    LET rows == MintPassTypeRows(
                    db, CandidatesFor(cycle[c].assets, "MINT_PASS_TYPE"))
    IN  ReadStep(c, "MINT_PASS_TYPE", rows, Len(rows) > 0)

\* updateMintPassTypes: the insert
MintPassTypesWrite(c) ==
    WriteStep(c, "MINT_PASS_TYPE", writeMintPassTypes(db, cycle[c].tmp))

\* updateMintPasses: the two reads
MintPassesRead(c) ==
    ReadStep(c, "MINT_PASS",
             MintPassRows(db, CandidatesFor(cycle[c].assets, "MINT_PASS")),
             TRUE)

\* updateMintPasses: the upsert
MintPassesWrite(c) ==
    WriteStep(c, "MINT_PASS", writeMintPasses(db, cycle[c].tmp))

\* burnPasses / burnCards: the delete completes, or rejects and with it
\* the call of update()
BurnStep(c, T, ids, next) ==
    /\ cycle[c].pc = "burn"
    /\ cycle[c].tab = T
    /\ LET d == DbDelete(db, T, ids)
       IN  /\ db' = d.S
           /\ cycle' = [cycle EXCEPT ![c] =
                           IF d.threw THEN IdleCycle
                           ELSE [next EXCEPT !.writes = @ + 1]]
    /\ UNCHANGED <<lastCursor, clock, started, failures, call, before>>

BurnPasses(c) ==
    BurnStep(c, "MINT_PASS", Burned(cycle[c].assets).passIds,
             AfterBurnPasses(cycle[c]))

BurnCards(c) ==
    BurnStep(c, "CARD", Burned(cycle[c].assets).cardIds, AfterBurn(cycle[c]))

\* recordUpdate(updateTs, assets[0].updated_at, assets.length), then the
\* request of the next page
RecordUpdate(c) ==
    /\ cycle[c].pc = "record"
    /\ db' = recordUpdate(db, cycle[c].updateTs,
                          cycle[c].assets[1].updated_at,
                          Len(cycle[c].assets))
    /\ cycle' = [cycle EXCEPT ![c] =
                    RequestNext([cycle[c] EXCEPT !.writes = @ + 1,
                                                 !.pages = @ + 1])]
    /\ UNCHANGED <<lastCursor, clock, started, failures, call, before>>

Init ==
    /\ db = EmptyStore
    /\ lastCursor = 0
    /\ cycle = [c \in Slots |-> IdleCycle]
    /\ clock = 0
    /\ started = 0
    /\ failures = 0
    /\ call = NoCall
    /\ before = EmptyStore

Next ==
    \E c \in Slots :
        \/ Start(c)
        \/ FetchOk(c)
        \/ FetchFail(c)
        \/ EnumRead(c)
        \/ EnumInsert(c)
        \/ MetaCardsRead(c)
        \/ MetaCardsWrite(c)
        \/ CardsRead(c)
        \/ CardsWrite(c)
        \/ MintPassTypesRead(c)
        \/ MintPassTypesWrite(c)
        \/ MintPassesRead(c)
        \/ MintPassesWrite(c)
        \/ BurnPasses(c)
        \/ BurnCards(c)
        \/ RecordUpdate(c)

Spec == Init /\ [][Next]_vars

(***************************************************************************)
(* The dimension updates alone: calls of updateElements, updateRarities,   *)
(* updateFamilies and updateUsers on any lists of names, by two callers    *)
(* whose reads and inserts interleave as those of overlapping calls of     *)
(* CTAManager.update do.                                                   *)
(***************************************************************************)
MaxDimCalls == 3

DimNames == {"fire", "water"}

\* the lists of distinct names a call is handed (Classify hands sets over)
DimItems ==
    {<<n>> : n \in DimNames}
        \cup ({<<n, m>> : n, m \in DimNames} \ {<<n, n>> : n \in DimNames})

IdleCall == [pc |-> "idle", tab |-> "", items |-> <<>>, tmp |-> <<>>]

\* _insertNewValuesInEnumTable(T, items) is called: its read completes, and
\* it returns when there is nothing new
DimRead(c, T, items) ==
    /\ cycle[c].pc = "idle"
    /\ started < MaxDimCalls
    /\ started' = started + 1
    /\ LET existingValues == get_enum_table(db, T, EnumField(T))
       IN  cycle' = [cycle EXCEPT ![c] =
                        IF \E i \in 1..Len(items) :
                              items[i] \notin DOMAIN existingValues
                        THEN [pc |-> "write", tab |-> T, items |-> items,
                              tmp |-> existingValues]
                        ELSE IdleCall]
    /\ call' = [op |-> "dimension", table |-> T, items |-> items]
    /\ UNCHANGED <<db, lastCursor, clock, failures, before>>

\* its insert completes
DimInsert(c) ==
    /\ cycle[c].pc = "write"
    /\ db' = insertNewValues(db, cycle[c].tab, EnumField(cycle[c].tab),
                             cycle[c].items, cycle[c].tmp)
    /\ cycle' = [cycle EXCEPT ![c] = IdleCall]
    /\ before' = db
    /\ UNCHANGED <<lastCursor, clock, started, failures, call>>

InitDim ==
    /\ db = EmptyStore
    /\ lastCursor = 0
    /\ cycle = [c \in Slots |-> IdleCall]
    /\ clock = 0
    /\ started = 0
    /\ failures = 0
    /\ call = NoCall
    /\ before = EmptyStore

NextDim ==
    \E c \in Slots :
        \/ \E T \in EnumTables, items \in DimItems : DimRead(c, T, items)
        \/ DimInsert(c)

SpecDim == InitDim /\ [][NextDim]_vars

(***************************************************************************)
(* Properties of the reconciliation of one page (SpecPage) and of the      *)
(* statement layer (SpecDb).                                               *)
(***************************************************************************)
ReconciledTables ==
    EnumTables \cup {"CARD_META", "CARD", "MINT_PASS_TYPE", "MINT_PASS"}

Ids(rows) == {r.id : r \in rows}

\* the id of the row of T whose field is x, NULL when there is none
IdOf(S, T, field, x) ==
    IF \E r \in S.tbl[T] : r[field] = x
    THEN (CHOOSE r \in S.tbl[T] : r[field] = x).id
    ELSE NULL

\* repository.update then repository.burn on a page
Reconcile(S, assets) ==
    RepositoryBurn(RepositoryUpdate(S, Classify(assets)), Burned(assets)).S

\* C4: once a page has been reconciled (repository.update, then
\* repository.burn), reconciling the same page again changes no dimension,
\* archetype or instance table: no row is added, removed or modified.
ReconcileIdempotent ==
    call.op = "burn" =>
        \A T \in ReconciledTables :
            Reconcile(db, call.assets).tbl[T] = db.tbl[T]

\* a page was reconciled onto a store that already held rows, and left rows
ReconcileIdempotentWitness ==
    /\ call.op = "burn"
    /\ Len(Classify(call.assets).cards) > 0
    /\ Len(Classify(call.assets).mintPasses) > 0
    /\ db.tbl["CARD"] # {}
    /\ db.tbl["MINT_PASS"] # {}
    /\ db.tbl["CARD_META"] # {}

\* the row a card candidate must end up as
ExpectedCard(S, c) ==
    [id |-> c.id, foil |-> IF c.foil THEN 1 ELSE 0, rank |-> c.rank,
     grade |-> c.grade, animationLevel |-> c.animationLevel,
     numbering |-> c.numbering, power |-> c.power,
     created_at |-> c.created_at, updated_at |-> c.updated_at,
     card_meta_id |-> TextToInt(c.card_meta_id),
     user_id |-> IdOf(S, "CTA_USER", "address", c.user)]

ExpectedMetaCard(S, m) ==
    [id |-> TextToInt(m.id), name |-> m.name, description |-> m.description,
     image_url |-> m.imageUrl, advancement |-> m.advancement,
     card_type |-> m.cardType,
     element_id |-> IdOf(S, "ELEMENT", "name", m.element),
     rarity_id |-> IdOf(S, "RARITY", "name", m.rarity),
     family_id |-> IdOf(S, "FAMILY", "name", m.family)]

ExpectedMintPass(S, p) ==
    [id |-> p.id, numbering |-> p.numbering, created_at |-> p.created_at,
     updated_at |-> p.updated_at,
     mint_pass_type_id |-> IdOf(S, "MINT_PASS_TYPE", "pass_type", p.passType),
     user_id |-> IdOf(S, "CTA_USER", "address", p.user)]

\* T holds exactly one row with the primary key of row, and it is row
HoldsExactly(S, T, row) ==
    {r \in S.tbl[T] : r.id = row.id} = {row}

\* C5: after repository.update, every archetype and instance candidate of
\* the batch, whether its primary key was absent (insert path) or present
\* (update path), has exactly one row, whose fields are the candidate's.
UpsertMatchesCandidates ==
    call.op = "update" =>
        LET c == Classify(call.assets)
        IN  /\ \A i \in 1..Len(c.metaCards) :
                  HoldsExactly(db, "CARD_META",
                               ExpectedMetaCard(db, c.metaCards[i]))
            /\ \A i \in 1..Len(c.cards) :
                  HoldsExactly(db, "CARD", ExpectedCard(db, c.cards[i]))
            /\ \A i \in 1..Len(c.mintPasses) :
                  HoldsExactly(db, "MINT_PASS",
                               ExpectedMintPass(db, c.mintPasses[i]))

\* a batch of cards with a key that had a row of other content and a key
\* that had none
UpsertMatchesCandidatesWitness ==
    /\ call.op = "update"
    /\ LET c == Classify(call.assets).cards
       IN  /\ \E i \in 1..Len(c) :
                 /\ c[i].id \in Ids(before.tbl["CARD"])
                 /\ ExpectedCard(db, c[i]) \notin before.tbl["CARD"]
           /\ \E i \in 1..Len(c) : c[i].id \notin Ids(before.tbl["CARD"])

\* C6: upsert with the default insertPk = false on k candidates whose key
\* has a row and m new candidates updates the k rows and adds exactly m
\* rows.
UpsertAddsOnlyNewRows ==
    call.op = "upsert" =>
        LET old == {v \in Range(call.values) :
                       /\ "id" \in DOMAIN v
                       /\ v.id \in Ids(before.tbl["Person"])}
            new == Range(call.values) \ old
        IN  /\ \A v \in old : v \in db.tbl["Person"]
            /\ Cardinality(db.tbl["Person"])
                  = Cardinality(before.tbl["Person"]) + Cardinality(new)

\* C8: repository.burn raises no error, removes from CARD and MINT_PASS
\* exactly the rows whose id it was given (none when the id has no row),
\* and leaves every other table as it was.
BurnRemovesExactly ==
    call.op = "burn" =>
        LET b == Burned(call.assets)
        IN  /\ ~ call.threw
            /\ db.tbl["CARD"] =
                  {r \in before.tbl["CARD"] : ~ Includes(b.cardIds, r.id)}
            /\ db.tbl["MINT_PASS"] =
                  {r \in before.tbl["MINT_PASS"] :
                      ~ Includes(b.passIds, r.id)}
            /\ \A T \in Tables \ {"CARD", "MINT_PASS"} :
                  db.tbl[T] = before.tbl[T]

\* a burn of a card that had a row, leaving another card row, together with
\* a burn of a pass that had no row
BurnRemovesExactlyWitness ==
    /\ call.op = "burn"
    /\ LET b == Burned(call.assets)
       IN  /\ \E i \in 1..Len(b.cardIds) :
                 b.cardIds[i] \in Ids(before.tbl["CARD"])
           /\ \E i \in 1..Len(b.passIds) :
                 b.passIds[i] \notin Ids(before.tbl["MINT_PASS"])
    /\ db.tbl["CARD"] # {}

(***************************************************************************)
(* Properties of the dimension updates (SpecDim).                          *)
(***************************************************************************)
\* at most one row per name (address), and per id
OneRowPerName(S, T) ==
    \A r, q \in S.tbl[T] :
        (r[EnumField(T)] = q[EnumField(T)] \/ r.id = q.id) => r = q

\* C7: each dimension table holds at most one row per name or address, and
\* no step of updateElements, updateRarities, updateFamilies or updateUsers
\* removes a row, renames it or gives it another id.
DimensionAppendOnly ==
    [][\A T \in EnumTables :
          /\ OneRowPerName(db', T)
          /\ db.tbl[T] \subseteq db'.tbl[T]]_vars

\* a name that had a row was submitted again by a call whose read had not
\* seen the row: the insert was executed and skipped (it took a serial id)
DimensionAppendOnlyWitness ==
    \E T \in EnumTables :
        /\ db.tbl[T] # {}
        /\ db.tbl[T] = before.tbl[T]
        /\ db.seq[T] > before.seq[T]

(***************************************************************************)
(* Properties of the calls of CTAManager.update (Spec).                    *)
(***************************************************************************)
\* C1: a call of update() writes the store for at most ceil(N / P) pages,
\* N the ceiling MAX_ASSETS_PER_UPDATE and P the page size: it stops once
\* the records it processed reach N.
CycleBudget ==
    \A c \in Slots :
        cycle[c].pages * CTA_PAGE_SIZE
            < MAX_ASSETS_PER_UPDATE + CTA_PAGE_SIZE

\* the writes of one iteration of the loop on a page
PageWrites(S, assets, updateTs) ==
    recordUpdate(Reconcile(S, assets), updateTs, assets[1].updated_at,
                 Len(assets))

\* C2: when the fetch of the second page of a call throws, then as update()
\* returns the store holds exactly the writes of the first page on the
\* store the call started from, with one checkpoint row more, and the
\* retained cursor is the token of the call's last successful fetch and the
\* cursor the failed request was made with (so that the next call requests
\* that page again).
MidCycleFetchFailure ==
    [][\A c \in Slots :
          (FetchFail(c) /\ cycle[c].pages = 1) =>
              /\ db' = PageWrites(cycle[c].db0, cycle[c].assets,
                                  cycle[c].updateTs)
              /\ Cardinality(db'.tbl["UPDATE_HISTORY"])
                    = Cardinality(cycle[c].db0.tbl["UPDATE_HISTORY"]) + 1
              /\ lastCursor' = cycle[c].token
              /\ lastCursor' = cycle[c].reqCursor]_vars

\* C3: when the first fetch of a call throws, update() returns having
\* issued no store write, the store and the retained cursor are as they
\* were when it was called, and the retained cursor is the one the failed
\* request was made with (so that the next call requests that page again).
InitialFetchFailure ==
    [][\A c \in Slots :
          (FetchFail(c) /\ cycle[c].pages = 0) =>
              /\ cycle[c].writes = 0
              /\ db' = cycle[c].db0
              /\ lastCursor' = cycle[c].cursor0
              /\ lastCursor' = cycle[c].reqCursor]_vars

\* C9: the last_asset_timestamp of the rows of UPDATE_HISTORY is
\* non-decreasing in append order (the order of the serial id).
CheckpointOrdering ==
    \A r, q \in db.tbl["UPDATE_HISTORY"] :
        r.id < q.id => r.last_asset_timestamp <= q.last_asset_timestamp

\* C10: at most one call of update() is in progress at any time.
MutualExclusion == Cardinality({c \in Slots : Running(c)}) <= 1

(***************************************************************************)
(* Properties of DatabaseService (SpecStore).                              *)
(***************************************************************************)
\* C12: query, insert, update, upsert and delete return normally: none of
\* them throws, whatever the statement does.
StoreAbsorbsErrors ==
    call.op \in {"query", "insert", "update", "upsert", "delete"} =>
        ~ call.threw

\* the i-th candidate of an insert meets the arbiter of ON CONFLICT: its
\* primary key is inserted and a row, or an earlier candidate, has it
ConflictingCandidate(fieldNames, values, rows, i) ==
    /\ Includes(fieldNames, "id")
    /\ \/ values[i].id \in Ids(rows)
       \/ \E j \in 1..(i - 1) : values[j].id = values[i].id

\* the row of the Person table a candidate is inserted as under key id
PersonRow(v, id) ==
    [id |-> id, firstname |-> v.firstname, lastname |-> v.lastname]

LastWithKey(values, id) ==
    values[CHOOSE i \in 1..Len(values) :
              /\ values[i].id = id
              /\ \A j \in (i + 1)..Len(values) : values[j].id # id]

\* C16: update changes only the rows whose primary key is in the batch, and
\* of these only the listed fields, which take the candidate's values; no
\* row is added or removed.
UpdateChangesOnlyBatchRows ==
    call.op = "update" =>
        /\ Cardinality(db.tbl["Person"]) = Cardinality(before.tbl["Person"])
        /\ Ids(db.tbl["Person"]) = Ids(before.tbl["Person"])
        /\ \A r \in before.tbl["Person"] :
              IF \E i \in 1..Len(call.values) : call.values[i].id = r.id
              THEN LET v == LastWithKey(call.values, r.id)
                   IN  [c \in DOMAIN r |->
                           IF Includes(call.fieldNames, c) THEN v[c]
                           ELSE r[c]] \in db.tbl["Person"]
              ELSE r \in db.tbl["Person"]

\* an update of one field of a row, by a batch that also names a key no row
\* has, on a table with a row the batch does not name
UpdateChangesOnlyBatchRowsWitness ==
    /\ call.op = "update"
    /\ call.fieldNames = <<"firstname">>
    /\ \E i \in 1..Len(call.values) :
          call.values[i].id \notin Ids(before.tbl["Person"])
    /\ \E r \in before.tbl["Person"] : r \notin db.tbl["Person"]
    /\ \E r \in before.tbl["Person"] : r \in db.tbl["Person"]

(***************************************************************************)
(* Further properties of the calls of CTAManager.update (Spec).            *)
(***************************************************************************)
\* C11: the retained cursor changes only in a step in which a fetch
\* succeeds, it then is the continuation token that fetch returned, and it
\* never names an earlier position of the feed than it did before.
CursorMonotonic ==
    [][/\ lastCursor' # lastCursor =>
              \E c \in Slots :
                  /\ FetchOk(c)
                  /\ lastCursor' = listAssets(cycle[c].reqCursor).cursor
       /\ lastCursor' >= lastCursor]_vars

\* C20: a call of update() returns after a number of pages the ceiling
\* bounds, however many non-empty pages upstream has: it requests a further
\* page only while the (full) pages it processed hold fewer records than
\* MAX_ASSETS_PER_UPDATE.
TerminationBound ==
    \A c \in Slots :
        cycle[c].pc = "fetch" =>
            cycle[c].pages * CTA_PAGE_SIZE < MAX_ASSETS_PER_UPDATE

(***************************************************************************)
(* SpecSync: the calls of CTAManager.update one after the other, against   *)
(* an upstream that may return any page, also one with a record whose      *)
(* image reference is missing or whose file name holds no number.          *)
(***************************************************************************)
\* how many requests upstream answers with a page
MaxFetches == 3

\* metadata.image of a record that has none (undefined)
NoImage == <<NULLTEXT>>

\* url.lastIndexOf of getMetaCardId / getMintPassType on an undefined image
\* reference: a TypeError
KeyThrows(asset) == asset.metadata.image = NoImage

\* the forEach over the active assets of a page throws
ClassifyThrows(assets) ==
    \E i \in 1..Len(assets) :
        /\ Active(assets[i])
        /\ IsCard(assets[i]) \/ IsPass(assets[i])
        /\ KeyThrows(assets[i])

\* the pages upstream may return
SyncPages ==
    {<<>>,
     <<CardAsset(1, "0xA", "active", "1", 1, 1)>>,
     <<CardAsset(1, "0xA", "burned", "1", 1, 2)>>,
     <<CardAsset(2, "0xB", "active", "x", 1, 1)>>,
     <<[CardAsset(2, "0xB", "active", "2", 1, 1)
            EXCEPT !.metadata.image = NoImage]>>,
     <<PassAsset(3, "0xA", "active", "gold", 1, 1),
       CardAsset(2, "0xB", "active", "2", 1, 1)>>,
     <<PassAsset(3, "0xA", "burned", "gold", 1, 2),
       [PassAsset(4, "0xA", "active", "gold", 1, 2)
            EXCEPT !.metadata.image = NoImage]>>,
     <<PassAsset(3, "0xA", "active", "gold", 2, 3)>>,
     <<OtherAsset(5, "0xA", "active", 1)>>,
     <<OtherAsset(1, "0xA", "burned", 2)>>,
     <<OtherAsset(5, "0xC", "active", 1),
       CardAsset(1, "0xB", "active", "1", 2, 2)>>,
     <<CardAsset(1, "0xA", "active", "1", 1, 1),
       CardAsset(2, "0xB", "active", "2", 1, 2),
       PassAsset(3, "0xA", "active", "gold", 1, 3),
       OtherAsset(5, "0xA", "active", 4)>>}

\* the locals of the call of update() in progress, and how the last call
\* ended ("returned": its promise resolved, "rejected": it threw)
IdleSync ==
    [pc |-> "idle", assets |-> <<>>, assetsCount |-> 0, updateTs |-> 0,
     cursor0 |-> 0, outcome |-> "none"]

\* setImmediate / setInterval call update() when none is in progress; it
\* runs up to its first await, the request of a page
SyncStart ==
    /\ cycle.pc = "idle"
    /\ started < MaxCycles
    /\ started' = started + 1
    /\ clock' = clock + 1
    /\ cycle' = [IdleSync EXCEPT !.pc = "fetch", !.cursor0 = lastCursor]
    /\ UNCHANGED <<db, lastCursor, failures, call, before>>

\* _getNewAssetsPage resumes with a page and a new continuation token: the
\* token is retained, and the loop is entered or update() returns
SyncFetchOk(assets) ==
    /\ cycle.pc = "fetch"
    /\ lastCursor < MaxFetches
    /\ lastCursor' = lastCursor + 1
    /\ LET l == [cycle EXCEPT !.assets = assets,
                              !.assetsCount = Len(assets)]
       IN  cycle' = IF LoopContinues(l)
                    THEN [l EXCEPT !.pc = "page", !.updateTs = clock]
                    ELSE [IdleSync EXCEPT !.outcome = "returned"]
    /\ UNCHANGED <<db, clock, started, failures, call, before>>

\* client.listAssets throws: update() logs and returns
SyncFetchFail ==
    /\ cycle.pc = "fetch"
    /\ failures < MaxFailures
    /\ failures' = failures + 1
    /\ cycle' = [IdleSync EXCEPT !.outcome = "returned"]
    /\ UNCHANGED <<db, lastCursor, clock, started, call, before>>

\* one iteration of the loop, up to the request of the next page: the
\* classification, repository.update, repository.burn, recordUpdate.  An
\* exception of the classification or of repository.burn leaves update()
SyncPage ==
    /\ cycle.pc = "page"
    /\ before' = db
    /\ IF ClassifyThrows(cycle.assets)
       THEN /\ db' = db
            /\ call' = [op |-> "page", assets |-> cycle.assets,
                        threw |-> TRUE, recorded |-> FALSE,
                        cursor0 |-> cycle.cursor0]
            /\ cycle' = [IdleSync EXCEPT !.outcome = "rejected"]
       ELSE LET u == RepositoryUpdate(db, Classify(cycle.assets))
                b == RepositoryBurn(u, Burned(cycle.assets))
            IN  IF b.threw
                THEN /\ db' = b.S
                     /\ call' = [op |-> "page", assets |-> cycle.assets,
                                 threw |-> TRUE, recorded |-> FALSE,
                                 cursor0 |-> cycle.cursor0]
                     /\ cycle' = [IdleSync EXCEPT !.outcome = "rejected"]
                ELSE /\ db' = recordUpdate(b.S, cycle.updateTs,
                                           cycle.assets[1].updated_at,
                                           Len(cycle.assets))
                     /\ call' = [op |-> "page", assets |-> cycle.assets,
                                 threw |-> FALSE, recorded |-> TRUE,
                                 cursor0 |-> cycle.cursor0]
                     /\ cycle' = [cycle EXCEPT !.pc = "fetch",
                                               !.cursor0 = lastCursor]
    /\ UNCHANGED <<lastCursor, clock, started, failures>>

InitSync ==
    /\ db = EmptyStore
    /\ lastCursor = 0
    /\ cycle = IdleSync
    /\ clock = 0
    /\ started = 0
    /\ failures = 0
    /\ call = NoCall
    /\ before = EmptyStore

NextSync ==
    \/ SyncStart
    \/ \E assets \in SyncPages : SyncFetchOk(assets)
    \/ SyncFetchFail
    \/ SyncPage

SpecSync == InitSync /\ [][NextSync]_vars

(***************************************************************************)
(* Properties of a call of update() on arbitrary pages (SpecSync).         *)
(***************************************************************************)
\* C13: no call of CTAManager.update() throws or rejects, whatever fails
\* during the cycle: each call ends by returning.
UpdateNeverRejects == cycle.outcome # "rejected"

\* C14: when a page holds an active CARD or MINT_PASS record without a
\* usable image reference, the cycle ends on that page, no checkpoint row
\* is recorded for it, and the retained cursor is the one the page was
\* requested with.
MalformedPageIsRetried ==
    [][(/\ SyncPage
        /\ \E i \in 1..Len(cycle.assets) :
               LET a == cycle.assets[i]
               IN  /\ a.status # "burned"
                   /\ \/ a.metadata.image = NoImage
                      \/ /\ a.metadata.tokenType = "CARD"
                         /\ TextToInt(getMetaCardId(a)) = -1)
       => /\ cycle'.pc = "idle"
          /\ db'.tbl["UPDATE_HISTORY"] = db.tbl["UPDATE_HISTORY"]
          /\ lastCursor' = cycle.cursor0]_vars

\* C19: when a checkpoint row is recorded for a page and the call goes on
\* to request the next page, every active CARD and MINT_PASS record of the
\* page (the first of each token, unless the page also burns the token) has
\* its row in the store, with the candidate's content.
RecordedPageIsApplied ==
    (call.op = "page" /\ call.recorded /\ cycle.pc = "fetch") =>
        LET c == Classify(call.assets)
            b == Burned(call.assets)
        IN  /\ \A i \in 1..Len(c.cards) :
                  \/ Includes(b.cardIds, c.cards[i].id)
                  \/ HoldsExactly(db, "CARD", ExpectedCard(db, c.cards[i]))
            /\ \A i \in 1..Len(c.mintPasses) :
                  \/ Includes(b.passIds, c.mintPasses[i].id)
                  \/ HoldsExactly(db, "MINT_PASS",
                                  ExpectedMintPass(db, c.mintPasses[i]))

\* the page of one burned CARD record
BurnedCardPage(assets) ==
    /\ Len(assets) = 1
    /\ assets[1].metadata.tokenType = "CARD"
    /\ assets[1].status = "burned"

\* C17: processing a page of one burned CARD record with id X removes the
\* CARD row X when there is one and no other CARD row, changes no dimension,
\* archetype or pass row, and appends exactly one checkpoint row, with
\* assets_count = 1 and the record's upstream timestamp.
BurnedOnlyPage ==
    (call.op = "page" /\ BurnedCardPage(call.assets)) =>
        LET X == call.assets[1].token_id
            added == db.tbl["UPDATE_HISTORY"] \ before.tbl["UPDATE_HISTORY"]
        IN  /\ db.tbl["CARD"] = {r \in before.tbl["CARD"] : r.id # X}
            /\ \A T \in Tables \ {"CARD", "UPDATE_HISTORY"} :
                  db.tbl[T] = before.tbl[T]
            /\ before.tbl["UPDATE_HISTORY"] \subseteq db.tbl["UPDATE_HISTORY"]
            /\ Cardinality(added) = 1
            /\ \A r \in added :
                  /\ r.assets_count = 1
                  /\ r.last_asset_timestamp = call.assets[1].updated_at
                  /\ r.last_asset_timestamp # NULL

\* a page of one burned CARD record whose row was in the store, next to
\* rows of the dimension and archetype tables
BurnedOnlyPageWitness ==
    /\ call.op = "page"
    /\ BurnedCardPage(call.assets)
    /\ call.assets[1].token_id \in Ids(before.tbl["CARD"])
    /\ call.assets[1].token_id \notin Ids(db.tbl["CARD"])
    /\ db.tbl["CARD_META"] # {}
    /\ db.tbl["CTA_USER"] # {}

(***************************************************************************)
(* References of the card tables (SpecPage).                               *)
(***************************************************************************)
\* the column of row r names a row of table T
Refers(S, r, column, T) ==
    /\ r[column] # NULL
    /\ \E q \in S.tbl[T] : q.id = r[column]

\* the column of row r names the row of T whose field is x
RefersTo(S, r, column, T, field, x) ==
    /\ r[column] # NULL
    /\ \E q \in S.tbl[T] : q.id = r[column] /\ q[field] = x

\* C18: after any sequence of pages, every CARD row names an existing
\* CTA_USER row and an existing CARD_META row, every CARD_META row names
\* existing ELEMENT, RARITY and FAMILY rows, and after repository.update the
\* row of each card candidate names the CTA_USER row of the candidate's
\* owner and the row of each archetype candidate names the rows of the
\* candidate's element, rarity and family; no reference is null.
CardReferencesResolved ==
    /\ \A r \in db.tbl["CARD"] :
          /\ Refers(db, r, "user_id", "CTA_USER")
          /\ Refers(db, r, "card_meta_id", "CARD_META")
    /\ \A m \in db.tbl["CARD_META"] :
          /\ Refers(db, m, "element_id", "ELEMENT")
          /\ Refers(db, m, "rarity_id", "RARITY")
          /\ Refers(db, m, "family_id", "FAMILY")
    /\ call.op = "update" =>
          LET c == Classify(call.assets)
          IN  /\ \A i \in 1..Len(c.cards) :
                    \E r \in db.tbl["CARD"] :
                        /\ r.id = c.cards[i].id
                        /\ RefersTo(db, r, "user_id", "CTA_USER", "address",
                                    c.cards[i].user)
                        /\ r.card_meta_id = TextToInt(c.cards[i].card_meta_id)
              /\ \A i \in 1..Len(c.metaCards) :
                    \E m \in db.tbl["CARD_META"] :
                        /\ m.id = TextToInt(c.metaCards[i].id)
                        /\ RefersTo(db, m, "element_id", "ELEMENT", "name",
                                    c.metaCards[i].element)
                        /\ RefersTo(db, m, "rarity_id", "RARITY", "name",
                                    c.metaCards[i].rarity)
                        /\ RefersTo(db, m, "family_id", "FAMILY", "name",
                                    c.metaCards[i].family)

\* a card that changes owner: its row named another CTA_USER row before
\* repository.update, and several users, archetypes and elements exist
CardReferencesResolvedWitness ==
    /\ call.op = "update"
    /\ \E i \in 1..Len(Classify(call.assets).cards) :
          \E old \in before.tbl["CARD"] : \E new \in db.tbl["CARD"] :
              /\ old.id = Classify(call.assets).cards[i].id
              /\ new.id = old.id
              /\ new.user_id # old.user_id
    /\ Cardinality(db.tbl["CTA_USER"]) > 1
    /\ Cardinality(db.tbl["CARD_META"]) > 1
    /\ Cardinality(db.tbl["ELEMENT"]) > 1

\* C21: DatabaseService.delete(table, []) leaves every table as it was and
\* raises no exception.
DeleteOfNothingIsNoOp ==
    (call.op = "delete" /\ Len(call.ids) = 0) =>
        /\ ~ call.threw
        /\ db = before

(***************************************************************************)
(* SpecSolo: one call of CTAManager.update at a time, one step per awaited *)
(* store operation, against an upstream that may return any page of        *)
(* SoloPages (among them pages that hold a token both active and burned).  *)
(***************************************************************************)
SoloPages ==
    {<<>>,
     <<CardAsset(1, "0xA", "active", "1", 1, 1),
       CardAsset(1, "0xA", "burned", "1", 1, 2)>>,
     <<CardAsset(1, "0xB", "burned", "1", 2, 2),
       CardAsset(1, "0xB", "active", "1", 2, 1)>>,
     <<PassAsset(3, "0xA", "active", "gold", 1, 1),
       PassAsset(3, "0xA", "burned", "gold", 1, 2)>>,
     <<CardAsset(1, "0xB", "active", "1", 2, 1),
       PassAsset(3, "0xA", "active", "gold", 1, 2)>>,
     <<CardAsset(2, "0xA", "active", "2", 1, 1)>>}

\* _getNewAssetsPage resumes with a page and a new continuation token
SoloFetchOk(assets) ==
    /\ cycle["a"].pc = "fetch"
    /\ lastCursor < MaxFetches
    /\ lastCursor' = lastCursor + 1
    /\ LET l == [cycle["a"] EXCEPT !.assets = assets,
                                   !.assetsCount = Len(assets),
                                   !.token = lastCursor + 1]
       IN  cycle' = [cycle EXCEPT !["a"] =
                        IF LoopContinues(l)
                        THEN Goto([l EXCEPT !.updateTs = clock], 1)
                        ELSE IdleCycle]
    /\ UNCHANGED <<db, clock, started, failures, call, before>>

NextSolo ==
    \/ Start("a")
    \/ \E assets \in SoloPages : SoloFetchOk(assets)
    \/ FetchFail("a")
    \/ EnumRead("a")
    \/ EnumInsert("a")
    \/ MetaCardsRead("a")
    \/ MetaCardsWrite("a")
    \/ CardsRead("a")
    \/ CardsWrite("a")
    \/ MintPassTypesRead("a")
    \/ MintPassTypesWrite("a")
    \/ MintPassesRead("a")
    \/ MintPassesWrite("a")
    \/ BurnPasses("a")
    \/ BurnCards("a")
    \/ RecordUpdate("a")

SpecSolo == Init /\ [][NextSolo]_vars

(***************************************************************************)
(* The order of the store statements of a page (SpecSolo).                 *)
(***************************************************************************)
\* the place of a statement on table T in the order the page is written in:
\* dimensions, archetypes and instances, burn deletions, checkpoint
PlaceOf(pc, T) ==
    CASE pc \in {"read", "write"} /\ T = "ELEMENT" -> 1
      [] pc \in {"read", "write"} /\ T = "RARITY" -> 2
      [] pc \in {"read", "write"} /\ T = "FAMILY" -> 3
      [] pc \in {"read", "write"} /\ T = "CTA_USER" -> 4
      [] pc \in {"read", "write"} /\ T = "CARD_META" -> 5
      [] pc \in {"read", "write"} /\ T = "CARD" -> 6
      [] pc \in {"read", "write"} /\ T = "MINT_PASS_TYPE" -> 7
      [] pc \in {"read", "write"} /\ T = "MINT_PASS" -> 8
      [] pc = "burn" /\ T = "MINT_PASS" -> 9
      [] pc = "burn" /\ T = "CARD" -> 10
      [] pc = "record" -> 11
      [] OTHER -> 12

\* the table a statement issued at this place may change
TableAt(l) == IF l.pc = "record" THEN "UPDATE_HISTORY" ELSE l.tab

\* the tokens of kind k a page holds both in an active and in a burned record
ActiveAndBurned(assets, k) ==
    {assets[i].token_id : i \in {j \in 1..Len(assets) :
        /\ assets[j].metadata.tokenType = k
        /\ assets[j].status = "burned"
        /\ \E h \in 1..Len(assets) :
              /\ assets[h].metadata.tokenType = k
              /\ assets[h].status # "burned"
              /\ assets[h].token_id = assets[j].token_id}}

NoFetchedPageDropped ==
    [][/\ \A assets \in SyncPages :
             (SyncFetchOk(assets) /\ Len(assets) > 0) =>
                 /\ cycle'.pc = "page"
                 /\ cycle'.assets = assets
       /\ SyncPage =>
             /\ call'.recorded
             /\ cycle'.pc = "fetch"]_vars

(***************************************************************************)
(* SpecClassify: the classification of CTAManager.update applied to the    *)
(* pages of at most three records of ClassifyPool.                         *)
(***************************************************************************)
ClassifyPool ==
    {CardAsset(1, "0xA", "active", "1", 1, 1),
     CardAsset(1, "0xB", "active", "1", 2, 2),
     CardAsset(2, "0xC", "active", "1", 2, 2),
     CardAsset(2, "0xB", "active", "2", 1, 3),
     CardAsset(1, "0xD", "burned", "2", 1, 3),
     PassAsset(3, "0xA", "active", "gold", 1, 1),
     PassAsset(3, "0xB", "active", "silver", 2, 2),
     PassAsset(4, "0xC", "active", "gold", 2, 2),
     OtherAsset(1, "0xE", "active", 1)}

ClassifyPages ==
    {<<a>> : a \in ClassifyPool}
        \cup {<<a, b>> : a, b \in ClassifyPool}
        \cup {<<a, b, c>> : a, b, c \in ClassifyPool}

\* the forEach over the active assets of a page, up to the argument of
\* repository.update
ClassifyPage(assets) ==
    /\ call = NoCall
    /\ call' = [op |-> "classify", assets |-> assets,
                out |-> Classify(assets)]
    /\ UNCHANGED <<db, lastCursor, cycle, clock, started, failures, before>>

NextClassify == \E assets \in ClassifyPages : ClassifyPage(assets)

SpecClassify == InitPage /\ [][NextClassify]_vars

\* C25: of the active records of a page with the same token id (the same
\* archetype key, the same pass-type key) the first in page order makes the
\* candidate, there is exactly one candidate per key, and the dimension
\* lists hold, once each, exactly the elements, rarities, families and
\* owners of the active CARD records of the page.
FirstOccurrenceWins ==
    call.op = "classify" =>
        LET assets == call.assets
            out == call.out
            Cards == {i \in 1..Len(assets) :
                        /\ assets[i].status # "burned"
                        /\ assets[i].metadata.tokenType = "CARD"}
            Passes == {i \in 1..Len(assets) :
                        /\ assets[i].status # "burned"
                        /\ assets[i].metadata.tokenType = "MINT_PASS"}
            Tok(i) == assets[i].token_id
            Meta(i) == getMetaCardId(assets[i])
            Type(i) == getMintPassType(assets[i])
            Once(list) == Cardinality(Range(list)) = Len(list)
        IN  /\ Len(out.cards) = Cardinality({Tok(i) : i \in Cards})
            /\ \A i \in Cards :
                  (\A j \in Cards : Tok(j) = Tok(i) => i <= j) =>
                      \E k \in 1..Len(out.cards) :
                          out.cards[k] = CardOf(assets[i])
            /\ Len(out.metaCards) = Cardinality({Meta(i) : i \in Cards})
            /\ \A i \in Cards :
                  (\A j \in Cards : Meta(j) = Meta(i) => i <= j) =>
                      \E k \in 1..Len(out.metaCards) :
                          out.metaCards[k] = MetaCardOf(assets[i])
            /\ Len(out.mintPasses) = Cardinality({Tok(i) : i \in Passes})
            /\ \A i \in Passes :
                  (\A j \in Passes : Tok(j) = Tok(i) => i <= j) =>
                      \E k \in 1..Len(out.mintPasses) :
                          out.mintPasses[k] = MintPassOf(assets[i])
            /\ Len(out.mintPassTypes) = Cardinality({Type(i) : i \in Passes})
            /\ \A i \in Passes :
                  (\A j \in Passes : Type(j) = Type(i) => i <= j) =>
                      \E k \in 1..Len(out.mintPassTypes) :
                          out.mintPassTypes[k] = MintPassTypeOf(assets[i])
            /\ Range(out.arkomes)
                  = {assets[i].metadata.element : i \in Cards}
            /\ Range(out.rarities)
                  = {assets[i].metadata.rarity : i \in Cards}
            /\ Range(out.families) = {assets[i].metadata.set : i \in Cards}
            /\ Range(out.users) = {assets[i].user : i \in Cards}
            /\ Once(out.arkomes) /\ Once(out.rarities)
            /\ Once(out.families) /\ Once(out.users)

\* a page of three records with two active cards of one token and
\* different owners
FirstOccurrenceWinsWitness ==
    /\ call.op = "classify"
    /\ Len(call.assets) = 3
    /\ \E i, j \in 1..3 :
          /\ i < j
          /\ call.assets[i].status # "burned"
          /\ call.assets[j].status # "burned"
          /\ call.assets[i].metadata.tokenType = "CARD"
          /\ call.assets[j].metadata.tokenType = "CARD"
          /\ call.assets[i].token_id = call.assets[j].token_id
          /\ call.assets[i].user # call.assets[j].user
    /\ Len(call.out.cards) = 1
    /\ Len(call.out.users) = 2

\* the records of a page whose kind the manager knows
KnownKind(assets) ==
    SelectSeq(assets, LAMBDA a : a.metadata.tokenType \in {"CARD", "MINT_PASS"})

\* C26: a page with a record that is neither a CARD nor a MINT_PASS, active
\* or burned, leaves every dimension, archetype and instance table as the
\* page without that record would; a page of such records only changes none
\* of these tables and raises no error; the record counts in the
\* assets_count of the page's checkpoint.
UnknownKindIgnored ==
    (call.op = "page" /\ Len(KnownKind(call.assets)) < Len(call.assets)) =>
        /\ Len(KnownKind(call.assets)) = 0 =>
              /\ ~ call.threw
              /\ \A T \in ReconciledTables : db.tbl[T] = before.tbl[T]
        /\ ~ call.threw =>
              /\ \A T \in ReconciledTables :
                    db.tbl[T]
                        = Reconcile(before, KnownKind(call.assets)).tbl[T]
              /\ \E r \in db.tbl["UPDATE_HISTORY"]
                            \ before.tbl["UPDATE_HISTORY"] :
                    r.assets_count = Len(call.assets)

\* a burned record of an unknown kind with the token id of a card that has
\* a row: the row stays
UnknownKindIgnoredWitness ==
    /\ call.op = "page"
    /\ Len(call.assets) = 1
    /\ call.assets[1].metadata.tokenType = "LAND"
    /\ call.assets[1].status = "burned"
    /\ call.assets[1].token_id \in Ids(db.tbl["CARD"])
    /\ call.recorded

\* C27: a CARD_META row, once it exists, keeps its name, description,
\* image_url, advancement, card_type, element_id, rarity_id and family_id
\* in every later state.
ArchetypeImmutable ==
    [][\A m \in db.tbl["CARD_META"] :
          \A n \in db'.tbl["CARD_META"] : n.id = m.id => n = m]_vars

\* the address of the CTA_USER row a CARD row names ("" when it names none)
OwnerOf(S, r) ==
    IF \E u \in S.tbl["CTA_USER"] : u.id = r.user_id
    THEN (CHOOSE u \in S.tbl["CTA_USER"] : u.id = r.user_id).address
    ELSE ""

\* the card candidates of a page whose token had a row of another owner
\* (and is not burned by the same page)
OwnerChanges(S, assets) ==
    LET c == Classify(assets).cards
    IN  {i \in 1..Len(c) :
            /\ ~ Includes(Burned(assets).cardIds, c[i].id)
            /\ \E old \in S.tbl["CARD"] :
                  old.id = c[i].id /\ OwnerOf(S, old) # c[i].user}

\* C28: when a page holds an active CARD record of a token that has a row
\* of another owner, then after the page there is exactly one CARD row of
\* that id, its user_id names the CTA_USER row of the new owner, and its
\* other fields are the record's.
OwnerChangeApplied ==
    call.op = "page" =>
        \A i \in OwnerChanges(before, call.assets) :
            LET c == Classify(call.assets).cards[i]
            IN  /\ HoldsExactly(db, "CARD", ExpectedCard(db, c))
                /\ \A r \in db.tbl["CARD"] :
                      r.id = c.id => OwnerOf(db, r) = c.user

\* a card passes to an owner who had no CTA_USER row before the page
OwnerChangeAppliedWitness ==
    /\ call.op = "page"
    /\ \E i \in OwnerChanges(before, call.assets) :
          LET c == Classify(call.assets).cards[i]
          IN  /\ \A u \in before.tbl["CTA_USER"] : u.address # c.user
              /\ \E r \in db.tbl["CARD"] :
                    r.id = c.id /\ OwnerOf(db, r) = c.user

(***************************************************************************)
(* Further properties of the runs of the server on the feed (Spec).        *)
(***************************************************************************)
\* the page of the feed a checkpoint row was written for (the updated_at of
\* a record of the feed is its position)
PageOf(h) == listAssets(h.last_asset_timestamp - 1).result

\* C29: once the page that marks card (pass) X as burned has been processed
\* (its checkpoint row is in UPDATE_HISTORY), no CARD (MINT_PASS) row X
\* exists.
BurnIsPermanent ==
    \A h \in db.tbl["UPDATE_HISTORY"] :
        \A i \in 1..Len(PageOf(h)) :
            LET a == PageOf(h)[i]
            IN  a.status = "burned" =>
                   /\ a.metadata.tokenType = "CARD" =>
                         a.token_id \notin Ids(db.tbl["CARD"])
                   /\ a.metadata.tokenType = "MINT_PASS" =>
                         a.token_id \notin Ids(db.tbl["MINT_PASS"])

(***************************************************************************)
(* The pass types after a page (SpecSync).                                 *)
(***************************************************************************)
\* C30: after a page is processed, the MINT_PASS_TYPE row of the pass-type
\* key of each of its pass-type candidates, also of a key that had a row
\* before, has the candidate's name, description and image_url; and no
\* state holds two MINT_PASS_TYPE rows of one pass-type key.
PassTypeFollowsCandidate ==
    /\ \A r, q \in db.tbl["MINT_PASS_TYPE"] :
          r.pass_type = q.pass_type => r = q
    /\ (call.op = "page" /\ call.recorded) =>
          LET t == Classify(call.assets).mintPassTypes
          IN  \A i \in 1..Len(t) :
                  \E r \in db.tbl["MINT_PASS_TYPE"] :
                      /\ r.pass_type = t[i].passType
                      /\ r.name = t[i].name
                      /\ r.description = t[i].description
                      /\ r.image_url = t[i].imageUrl

(***************************************************************************)
(* References of the mint passes after a page (SpecSync).                  *)
(***************************************************************************)
\* C31: after a page is processed, the MINT_PASS row of each of its active
\* MINT_PASS records (the first of a token, unless the page also burns the
\* token) names the CTA_USER row of the record's owner and the
\* MINT_PASS_TYPE row of its pass-type key; neither reference is null, also
\* when the owner has no card in the page and had no CTA_USER row.
PassReferencesResolved ==
    (call.op = "page" /\ call.recorded) =>
        LET p == Classify(call.assets).mintPasses
        IN  \A i \in 1..Len(p) :
                \/ Includes(Burned(call.assets).passIds, p[i].id)
                \/ \E r \in db.tbl["MINT_PASS"] :
                      /\ r.id = p[i].id
                      /\ RefersTo(db, r, "user_id", "CTA_USER", "address",
                                  p[i].user)
                      /\ RefersTo(db, r, "mint_pass_type_id",
                                  "MINT_PASS_TYPE", "pass_type",
                                  p[i].passType)

(***************************************************************************)
(* The statistics read path: Repository.getCollectionStats (the grouped    *)
(* rows of the store), getSupply / getSupplyPercent, and the aggregation   *)
(* of CTAManager.getCollectionStats.                                       *)
(***************************************************************************)
\* CARD c JOIN CARD_META mc JOIN ELEMENT a JOIN RARITY r, for the standard
\* (mc.advancement = 'STANDARD') or the alternative (!=) cards; a NULL
\* advancement satisfies neither condition
JoinedCards(S, std) ==
    {j \in [c : S.tbl["CARD"], mc : S.tbl["CARD_META"],
            a : S.tbl["ELEMENT"], r : S.tbl["RARITY"]] :
        /\ j.mc.id = j.c.card_meta_id
        /\ j.a.id = j.mc.element_id
        /\ j.r.id = j.mc.rarity_id
        /\ j.mc.advancement # NULLTEXT
        /\ (j.mc.advancement = "STANDARD") = std}

\* c.rank or c.grade, the column the cards are grouped by
RankOrGrade(c, std) == IF std THEN c.rank ELSE c.grade

\* GROUP BY mc.id, c.foil, rank-or-grade (the other columns follow mc.id)
GroupKey(j, std) == <<j.mc.id, j.c.foil, RankOrGrade(j.c, std)>>

Least(ns) == CHOOSE n \in ns : \A m \in ns : n <= m

Greatest(ns) == CHOOSE n \in ns : \A m \in ns : m <= n

\* the row of one group
GroupRow(S, std, k) ==
    LET g == {j \in JoinedCards(S, std) : GroupKey(j, std) = k}
        j == CHOOSE x \in g : TRUE
    IN  [id |-> j.mc.id, foil |-> j.c.foil, card_name |-> j.mc.name,
         card_type |-> j.mc.card_type, advancement |-> j.mc.advancement,
         element |-> j.a.name, rarity |-> j.r.name,
         rankOrGrade |-> k[3], count |-> Cardinality(g),
         min_number |-> Least({x.c.numbering : x \in g}),
         max_number |-> Greatest({x.c.numbering : x \in g})]

\* the position of a grade in the order of the text values
GradeOrder(g) ==
    CASE g = "A" -> 1 [] g = "B" -> 2 [] g = "C" -> 3 [] g = "S" -> 4
      [] OTHER -> 5

\* ORDER BY mc.id, c.foil, rank-or-grade
RowBefore(x, y, std) ==
    LET sx == IF std THEN x.rankOrGrade ELSE GradeOrder(x.rankOrGrade)
        sy == IF std THEN y.rankOrGrade ELSE GradeOrder(y.rankOrGrade)
    IN  \/ x.id < y.id
        \/ x.id = y.id /\ x.foil < y.foil
        \/ x.id = y.id /\ x.foil = y.foil /\ sx <= sy

RECURSIVE InOrder(_, _)
InOrder(rows, std) ==
    IF rows = {} THEN <<>>
    ELSE LET first == CHOOSE x \in rows :
                          \A y \in rows : RowBefore(x, y, std)
         IN  <<first>> \o InOrder(rows \ {first}, std)

\* the result of the query _query(rank or grade, where)
GroupedCards(S, std) ==
    InOrder({GroupRow(S, std, k) :
                k \in {GroupKey(j, std) : j \in JoinedCards(S, std)}}, std)

\* the mint passes grouped by type, ordered by the id of the type
RECURSIVE PassesInOrder(_)
PassesInOrder(rows) ==
    IF rows = {} THEN <<>>
    ELSE LET first == CHOOSE x \in rows : \A y \in rows : x.id <= y.id
         IN  <<first>> \o PassesInOrder(rows \ {first})

GroupedPasses(S) ==
    LET Of(mt) == {p \in S.tbl["MINT_PASS"] : p.mint_pass_type_id = mt.id}
    IN  PassesInOrder(
            {[id |-> mt.id, name |-> mt.name, count |-> Cardinality(Of(mt)),
              min_number |-> Least({p.numbering : p \in Of(mt)}),
              max_number |-> Greatest({p.numbering : p \in Of(mt)})] :
                mt \in {t \in S.tbl["MINT_PASS_TYPE"] : Of(t) # {}}})

\* Repository.getCollectionStats; a query that fails yields []
RepositoryStats(S, ok) ==
    IF ok
    THEN [stdCards |-> GroupedCards(S, TRUE),
          altCards |-> GroupedCards(S, FALSE),
          mintPasses |-> GroupedPasses(S)]
    ELSE [stdCards |-> <<>>, altCards |-> <<>>, mintPasses |-> <<>>]

\* Repository.get_last_update: the rows of SELECT update_timestamp FROM
\* UPDATE_HISTORY ORDER BY id DESC LIMIT 1
LastUpdateRows(S, ok) ==
    LET h == S.tbl["UPDATE_HISTORY"]
    IN  IF ok /\ h # {}
        THEN <<CHOOSE r \in h : \A q \in h : q.id <= r.id>>
        ELSE <<>>

KNOWN_SUPPLY_RARITIES ==
    {"MYTHIC", "ULTRA_RARE", "SPECIAL_RARE", "RARE", "UNCOMMON", "COMMON"}

\* CARD_SUPPLY.normal[rarity][advancement]; 0 stands for undefined
SupplyNormal(rarity, advancement) ==
    LET s == CASE rarity = "MYTHIC" -> <<20000, 10000, 5000>>
               [] rarity = "ULTRA_RARE" -> <<60000, 30000, 15000>>
               [] rarity = "SPECIAL_RARE" -> <<100000, 40000, 20000>>
               [] rarity = "RARE" -> <<150000, 50000, 25000>>
               [] rarity = "UNCOMMON" -> <<400000, 100000, 50000>>
               [] rarity = "COMMON" -> <<800000, 300000, 150000>>
    IN  CASE advancement = "STANDARD" -> s[1]
          [] advancement = "ALTERNATIVE" -> s[2]
          [] advancement = "ALTERNATIVE_COMBO" -> s[3]
          [] OTHER -> 0

\* CARD_SUPPLY.foil[rarity][advancement]: a fifth of the normal supply
SupplyFoil(rarity, advancement) == SupplyNormal(rarity, advancement) \div 5

\* getSupply: null for a rarity without a known supply
getSupply(card) ==
    IF card.rarity \notin KNOWN_SUPPLY_RARITIES THEN [known |-> FALSE]
    ELSE IF card.card_name = "Hannibal & Honora"
    THEN [known |-> TRUE, non_foil |-> 10000, foil |-> 1000]
    ELSE [known |-> TRUE,
          non_foil |-> SupplyNormal(card.rarity, card.advancement),
          foil |-> SupplyFoil(card.rarity, card.advancement)]

\* percent(count / supply), in hundredths of a percent (-1: not a number)
percent(count, supply) ==
    IF supply = 0 THEN -1
    ELSE (2 * 10000 * count + supply) \div (2 * supply)

\* getSupplyPercent
getSupplyPercent(card) ==
    LET supply == getSupply(card)
    IN  IF ~ supply.known THEN supply
        ELSE [known |-> TRUE,
              foil |-> percent(card.total_count_foil, supply.foil),
              non_foil |-> percent(card.total_count_non_foil,
                                   supply.non_foil)]

\* every grouped row counted in the standard breakdown
BreakdownStandard(c) == "standard"

\* "foil" or "standard": the breakdown a grouped row is counted in
BreakdownOf(c) == IF c.foil # 0 THEN "foil" ELSE "standard"

\* the counters of a new entry: r1..r5 of a standard card (keyed by the
\* rank), C, B, A, S of an alternative card
NoCounts(std) ==
    IF std THEN [k \in 1..5 |-> 0] ELSE [g \in {"C", "B", "A", "S"} |-> 0]

\* the entry of an archetype when its first grouped row is met
NewValues(c, std) ==
    [id |-> c.id, foil |-> (c.foil # 0), card_name |-> c.card_name,
     card_type |-> c.card_type, advancement |-> c.advancement,
     element |-> c.element, rarity |-> c.rarity,
     total_count |-> 0, total_count_non_foil |-> 0, total_count_foil |-> 0,
     supply_percent |-> [known |-> FALSE], supply |-> getSupply(c),
     counts |-> [standard |-> NoCounts(std), foil |-> NoCounts(std)]]

\* obj[key] = value, on an object that may not have the key yet
SetProp(obj, key, value) ==
    [k \in DOMAIN obj \cup {key} |-> IF k = key THEN value ELSE obj[k]]

\* one iteration of stdCards.forEach / altCards.forEach on the entry of
\* the row's archetype
AddRow(values, c) ==
    [values EXCEPT
        !.counts[BreakdownOf(c)] = SetProp(@, c.rankOrGrade, c.count),
        !.total_count = @ + c.count,
        !.total_count_non_foil = @ + (IF c.foil # 0 THEN 0 ELSE c.count),
        !.total_count_foil = @ + (IF c.foil # 0 THEN c.count ELSE 0)]

\* the forEach over the grouped rows: the entries in the insertion order of
\* the Map (first row of each archetype)
RECURSIVE Collect(_, _, _, _)
Collect(rows, std, i, acc) ==
    IF i > Len(rows) THEN acc
    ELSE LET c == rows[i]
             at == {k \in 1..Len(acc) : acc[k].id = c.id}
         IN  IF at = {}
             THEN Collect(rows, std, i + 1,
                          Append(acc, AddRow(NewValues(c, std), c)))
             ELSE Collect(rows, std, i + 1,
                          [k \in 1..Len(acc) |->
                              IF k \in at THEN AddRow(acc[k], c)
                              ELSE acc[k]])

\* the entries with their supply_percent
Collection(rows, std) ==
    LET entries == Collect(rows, std, 1, <<>>)
    IN  [k \in 1..Len(entries) |->
            [entries[k] EXCEPT
                !.supply_percent = getSupplyPercent(entries[k])]]

\* CTAManager.getCollectionStats on store S: rows[0].update_timestamp of
\* get_last_update throws when the query returned no row
CollectionStats(S, statsOk, lastOk) ==
    LET q == RepositoryStats(S, statsOk)
        last == LastUpdateRows(S, lastOk)
    IN  IF Len(last) = 0
        THEN [threw |-> TRUE, std_cards |-> <<>>, alt_cards |-> <<>>,
              mint_passes |-> <<>>, last_update |-> NULL]
        ELSE [threw |-> FALSE,
              std_cards |-> Collection(q.stdCards, TRUE),
              alt_cards |-> Collection(q.altCards, FALSE),
              mint_passes |-> q.mintPasses,
              last_update |-> last[1].update_timestamp]

(***************************************************************************)
(* SpecStats: GET /stats on the stores that pages of StatsPool leave.      *)
(***************************************************************************)
\* how many pages are processed
MaxStatsPages == 4

StatsPool ==
    {CardAsset(1, "0xA", "active", "1", 1, 1),
     [CardAsset(2, "0xB", "active", "1", 1, 2)
        EXCEPT !.metadata.foil = TRUE],
     [CardAsset(3, "0xA", "active", "1", 1, 3) EXCEPT !.metadata.rank = 6],
     CardAsset(4, "0xA", "active", "1", 1, 4),
     CardAsset(5, "0xB", "active", "2", 2, 1),
     [CardAsset(6, "0xA", "active", "2", 2, 2)
        EXCEPT !.metadata.foil = FALSE, !.metadata.grade = "B"],
     PassAsset(7, "0xA", "active", "gold", 1, 1)}

\* one iteration of the loop of CTAManager.update on a page of one record
StatsPage(a) ==
    /\ clock < MaxStatsPages
    /\ clock' = clock + 1
    /\ db' = PageWrites(db, <<a>>, clock + 1)
    /\ call' = NoCall
    /\ UNCHANGED <<lastCursor, cycle, started, failures, before>>

\* GET /stats: ctaManager.getCollectionStats()
GetStats(statsOk, lastOk) ==
    /\ call' = [op |-> "stats", statsOk |-> statsOk, lastOk |-> lastOk,
                out |-> CollectionStats(db, statsOk, lastOk)]
    /\ UNCHANGED <<db, lastCursor, cycle, clock, started, failures, before>>

NextStats ==
    \/ \E a \in StatsPool : StatsPage(a)
    \/ \E statsOk, lastOk \in BOOLEAN : GetStats(statsOk, lastOk)

SpecStats == InitPage /\ [][NextStats]_vars

\* C32: CTAManager.getCollectionStats() returns a result in every store
\* state, also when UPDATE_HISTORY has no row and when a query fails and
\* yields no row: it never throws.
StatsAlwaysReturns == call.op = "stats" => ~ call.out.threw

\* the sum of the counters of one breakdown
RECURSIVE SumOver(_, _)
SumOver(f, keys) ==
    IF keys = {} THEN 0
    ELSE LET k == CHOOSE x \in keys : TRUE
         IN  f[k] + SumOver(f, keys \ {k})

\* the entries of the standard and of the alternative cards of a result
StatsEntries(out) == Range(out.std_cards) \cup Range(out.alt_cards)

\* C33: in every entry getCollectionStats returns, total_count is
\* total_count_foil + total_count_non_foil, and it is the sum of the
\* per-rank (per-grade) counters of the foil and of the standard breakdown.
StatsTotalsConsistent ==
    (call.op = "stats" /\ ~ call.out.threw) =>
        \A e \in StatsEntries(call.out) :
            /\ e.total_count = e.total_count_foil + e.total_count_non_foil
            /\ e.total_count
                  = SumOver(e.counts.foil, DOMAIN e.counts.foil)
                      + SumOver(e.counts.standard, DOMAIN e.counts.standard)

\* a standard archetype with foil and non-foil cards, two cards in one
\* group and a card of a rank beyond r5, next to an alternative archetype
StatsTotalsConsistentWitness ==
    /\ call.op = "stats"
    /\ ~ call.out.threw
    /\ Len(call.out.alt_cards) > 0
    /\ \E e \in Range(call.out.std_cards) :
          /\ e.total_count >= 3
          /\ e.total_count_foil > 0
          /\ e.total_count_non_foil > 0
          /\ \E k \in DOMAIN e.counts.standard :
                k \notin 1..5 \/ e.counts.standard[k] > 1


(***************************************************************************)
(* The array utilities partition and splitInChunks.  One call is the state *)
(* `call`: partition is a single reduce, splitInChunks is run one          *)
(* iteration of its while loop at a time.                                  *)
(***************************************************************************)

\* the longest array handed to the utilities
MaxRows == 3

\* the largest chunk size
MaxSize == 3

\* the loop of splitInChunks is followed for one iteration more than the
\* array has items
MaxIterations == MaxRows + 1

\* the items of the arrays
Items == {1, 2}

\* the arrays of at most MaxRows items
Arrays == UNION {[1..n -> Items] : n \in 0..MaxRows}

\* the sizes: negative, zero and positive integers
Sizes == (0 - 1)..MaxSize

\* the filters, each given by the items it accepts
Filters == SUBSET Items

\* Array.prototype.splice(0, size): the number of items removed is size
\* clamped to 0..length
SpliceCount(rows, size) ==
    IF size < 0 THEN 0 ELSE IF size > Len(rows) THEN Len(rows) ELSE size

\* partition(data, filter): reduce from [[], []], pushing each item on the
\* first array when filter accepts it and on the second otherwise
RECURSIVE PartitionFrom(_, _, _, _)
PartitionFrom(data, accepted, i, r) ==
    IF i > Len(data) THEN r
    ELSE PartitionFrom(data, accepted, i + 1,
            IF data[i] \in accepted
            THEN <<Append(r[1], data[i]), r[2]>>
            ELSE <<r[1], Append(r[2], data[i])>>)

partition(data, accepted) == PartitionFrom(data, accepted, 1, <<<<>>, <<>>>>)

\* a call of partition
Partition(data, accepted) ==
    /\ call.op \in {"none", "partition"} \/ (call.op = "split" /\ call.done)
    /\ call' = [op |-> "partition", data |-> data, accepted |-> accepted,
                out |-> partition(data, accepted)]
    /\ UNCHANGED <<db, lastCursor, cycle, clock, started, failures, before>>

\* splitInChunks(rows, size) is entered: chunks = []
SplitStart(rows, size) ==
    /\ call.op \in {"none", "partition"} \/ (call.op = "split" /\ call.done)
    /\ call' = [op |-> "split", rows0 |-> rows, size |-> size, rows |-> rows,
                chunks |-> <<>>, iterations |-> 0, done |-> FALSE]
    /\ UNCHANGED <<db, lastCursor, cycle, clock, started, failures, before>>

\* one test of `while (rows.length)`: either the loop is left and chunks
\* is returned, or chunks.push(rows.splice(0, size)) runs once
SplitStep ==
    /\ call.op = "split"
    /\ ~ call.done
    /\ IF Len(call.rows) = 0
       THEN call' = [call EXCEPT !.done = TRUE]
       ELSE /\ call.iterations < MaxIterations
            /\ LET n == SpliceCount(call.rows, call.size)
               IN  call' = [call EXCEPT
                      !.chunks = Append(@, SubSeq(call.rows, 1, n)),
                      !.rows = SubSeq(call.rows, n + 1, Len(call.rows)),
                      !.iterations = @ + 1]
    /\ UNCHANGED <<db, lastCursor, cycle, clock, started, failures, before>>

NextUtils ==
    \/ \E data \in Arrays, accepted \in Filters : Partition(data, accepted)
    \/ \E rows \in Arrays, size \in Sizes : SplitStart(rows, size)
    \/ SplitStep

SpecUtils == InitPage /\ [][NextUtils]_vars

\* the concatenation of the chunks, in order
RECURSIVE Concat(_)
Concat(chunks) ==
    IF Len(chunks) = 0 THEN <<>> ELSE Head(chunks) \o Concat(Tail(chunks))

\* the items of an array that a filter accepts (rejects), in input order
Accepted(data, accepted) == SelectSeq(data, LAMBDA o : o \in accepted)
Rejected(data, accepted) == SelectSeq(data, LAMBDA o : o \notin accepted)

\* the loop of splitInChunks is left after at most one iteration per item
SplitTerminates ==
    call.op = "split" => call.iterations <= Len(call.rows0)

\* the chunks returned hold at most size items each and concatenate to rows
SplitResult ==
    (call.op = "split" /\ call.done) =>
        /\ \A i \in 1..Len(call.chunks) : Len(call.chunks[i]) <= call.size
        /\ Concat(call.chunks) = call.rows0

\* partition keeps the input order and splits exactly by the filter
PartitionResult ==
    call.op = "partition" =>
        /\ call.out[1] = Accepted(call.data, call.accepted)
        /\ call.out[2] = Rejected(call.data, call.accepted)

\* C34: splitInChunks terminates for every integer size and every finite
\* array (its loop runs at most once per item), its chunks hold at most
\* size items each and concatenate to the original rows, and partition
\* returns the accepted and the rejected items, each in input order.
UtilitiesContract == SplitTerminates /\ SplitResult /\ PartitionResult

====
